---- MODULE Spec2Model ----
(***************************************************************************)
(* KB Fortress AI: the natural-language-to-Cypher pipeline with its        *)
(* correction feedback loop.                                               *)
(*                                                                         *)
(*   KBTextToCypherAgent      src/src/agents/kb_text_to_cypher_agent.py    *)
(*   KBFortressUnifiedAgent   src/src/agents/kb_fortress_unified_agent.py  *)
(*   Neo4jManager             src/src/graph/neo4j_manager.py               *)
(*                                                                         *)
(* A text is a sequence of tokens; the tokens "3BT" (three backticks),     *)
(* "cypher", "\n" and " " are the literal substrings the code's strip()    *)
(* and replace() calls look for, every other token is an opaque piece of   *)
(* text.  The empty text is <<>>.  Korean literals of the source are       *)
(* rendered in ASCII.                                                      *)
(***************************************************************************)
EXTENDS Naturals, Sequences, FiniteSets

VARIABLES
    agent,                \* which entry point the caller is inside of
    calls,                \* number of entry-point calls made so far
    pc,                   \* next node of the workflow of the call in flight
    step,                 \* supersteps the workflow engine has run
    messages,             \* KBCypherState.messages
    cypher_query,         \* KBCypherState.cypher_query
    db_outputs,           \* KBCypherState.db_outputs
    error_history,        \* KBCypherState.error_history
    correction_attempts,  \* KBCypherState.correction_attempts
    final_answer,         \* KBCypherState.final_answer
    exc,                  \* the exception that escaped self.workflow.invoke
    result,               \* the dict process_question returned
    trace,                \* nodes entered in this run, in order
    execLog,              \* one record per entry into execute_cypher
    llmLog,               \* one record per LLM call of this run
    fortress_state,       \* KBFortressState of the unified agent's run
    analysis_local,       \* analyze_risk: results of the questions done so far
    question_log,         \* analyze_risk: calls made for the current question
    request_text,         \* the argument of the entry-point call in flight
    errors_recorded,      \* every error_history entry a node of this run returned
    threads,              \* the runs of concurrent callers of process_question
    server,               \* the web server process: kb_service and its connections
    retry,                \* CompleteGraphBuilder.process_batch_with_retry in flight
    batch,                \* BatchGraphBuilder.build_complete_graph in flight
    company               \* DynamicUserCompanyManager and the store it writes

vars == <<agent, calls, pc, step, messages, cypher_query, db_outputs,
          error_history, correction_attempts, final_answer, exc, result,
          trace, execLog, llmLog, fortress_state, analysis_local, question_log,
          request_text, errors_recorded, threads,
          server, retry, batch, company>>

componentVars == <<server, retry, batch, company>>
unifiedVars == <<fortress_state, analysis_local, question_log>>
textVars == <<messages, cypher_query, db_outputs, error_history,
              correction_attempts, final_answer>>

----------------------------------------------------------------------------
(* Bounds of the model *)

MaxCalls == 2
MaxRows == 2
MaxCreated == 1
MaxRequests == 2
MaxCompanyCalls == 2

(* Program constants *)

\* route_correction: "if correction_attempts >= 2"
MaxAttempts == 2
\* workflow.invoke(initial_state) passes no config: the engine's default
\* recursion limit of 25 supersteps applies
RecursionLimit == 25
\* error_history[-3:]
HistoryWindow == 3

\* process_batch_with_retry: "max_retries: int = 3"
DefaultMaxRetries == 3

----------------------------------------------------------------------------
(* Texts *)

Questions == { <<"What is CompanyX exposed to?">>, <<"Recommend KB products">> }

\* what the hosted LLM may answer (response.content)
LLMTexts ==
    { <<"QUERY_A">>,
      <<"QUERY_B">>,
      <<"3BT", "cypher", "\n", "QUERY_A", "\n", "3BT">>,
      <<"3BT", "cypher", "\n", "3BT">>,
      <<" ", "QUERY_B", "\n">>,
      <<>> }

\* the outcomes of self.llm.invoke(...): a response, or an exception
LLMOutcomes ==
    { [raised |-> FALSE, content |-> t, error |-> ""] : t \in LLMTexts }
    \cup { [raised |-> TRUE, content |-> <<>>, error |-> "llm unavailable"] }

\* the outcomes of session.run(query): rows, or an exception of the driver
RowLists == { [i \in 1..n |-> "row"] : n \in 0..MaxRows }

DriverOutcomes ==
    { [raised |-> FALSE, rows |-> r, error |-> ""] : r \in RowLists }
    \cup { [raised |-> TRUE, rows |-> <<>>, error |-> "unknown label"] }

\* "RETURN "<query correction failed, please retry>" AS message"
fallback_query == <<"RETURN 'query correction failed. please try again.' AS message">>
\* error_answer of generate_answer
error_answer == <<"Sorry. An error occurred while generating the answer. Please try again.">>
\* final_answer of the except branch of process_question
system_error_answer == <<"A system error occurred. Please try again.">>

IsWhitespace(t) == t \in {" ", "\n"}

RECURSIVE lstrip(_)
lstrip(s) == IF s # <<>> /\ IsWhitespace(Head(s)) THEN lstrip(Tail(s)) ELSE s

RECURSIVE rstrip(_)
rstrip(s) ==
    IF s # <<>> /\ IsWhitespace(s[Len(s)])
    THEN rstrip(SubSeq(s, 1, Len(s) - 1))
    ELSE s

\* str.strip()
strip(s) == rstrip(lstrip(s))

StartsWith(s, p) == Len(s) >= Len(p) /\ SubSeq(s, 1, Len(p)) = p

\* str.replace(p, '')
RECURSIVE replace_with_empty(_, _)
replace_with_empty(s, p) ==
    IF s = <<>> THEN <<>>
    ELSE IF StartsWith(s, p)
         THEN replace_with_empty(SubSeq(s, Len(p) + 1, Len(s)), p)
         ELSE <<Head(s)>> \o replace_with_empty(Tail(s), p)

\* response.content.strip() followed by the three replace() calls
strip_backticks(content) ==
    replace_with_empty(
        replace_with_empty(
            replace_with_empty(strip(content), <<"3BT", "cypher", "\n">>),
            <<"\n", "3BT">>),
        <<"3BT">>)

----------------------------------------------------------------------------
(* Messages and the add_messages reducer of the messages channel *)

HumanMessage(c) == [id |-> 0, type |-> "human", content |-> c]
AIMessage(c) == [id |-> 0, type |-> "ai", content |-> c]

RECURSIVE MaxId(_)
MaxId(ms) ==
    IF ms = <<>> THEN 0
    ELSE LET m == MaxId(Tail(ms)) IN IF Head(ms).id > m THEN Head(ms).id ELSE m

\* a message without id gets a fresh one and is appended; a message whose id
\* is already present replaces the message with that id
add_message(left, m) ==
    IF m.id # 0 /\ \E i \in 1..Len(left) : left[i].id = m.id
    THEN [i \in 1..Len(left) |-> IF left[i].id = m.id THEN m ELSE left[i]]
    ELSE Append(left, IF m.id = 0 THEN [m EXCEPT !.id = MaxId(left) + 1]
                      ELSE m)

RECURSIVE add_messages(_, _)
add_messages(left, right) ==
    IF right = <<>> THEN left
    ELSE add_messages(add_message(left, Head(right)), Tail(right))

----------------------------------------------------------------------------
(* Values of KBCypherState *)

\* an element of db_outputs is a Python list of rows or a Python str
ListValue(rows) == [kind |-> "list", rows |-> rows, text |-> ""]
StrValue(text) == [kind |-> "str", rows |-> <<>>, text |-> text]

\* an entry of error_history; NoQuery marks a dict without the "query" key
NoQuery == <<"(no query key)">>
ErrorEntry(stage, query, error) == [stage |-> stage, query |-> query, error |-> error]

NoResult == [keys |-> {}, success |-> FALSE, question |-> <<>>,
             final_answer |-> <<>>, cypher_query |-> <<>>, db_results |-> <<>>,
             correction_attempts |-> 0, error_history |-> <<>>, error |-> ""]

Nodes == {"generate_cypher", "execute_cypher", "correct_cypher", "generate_answer"}

\* initial_state of process_question
initial_state(user_question) ==
    [messages |-> add_messages(<<>>, <<HumanMessage(user_question)>>),
     cypher_query |-> <<>>,
     db_outputs |-> <<>>,
     error_history |-> <<>>,
     correction_attempts |-> 0,
     final_answer |-> <<>>]

\* the concurrent callers of process_question
Threads == {"t1", "t2"}

\* a caller that has not called process_question
IdleThread ==
    [pc |-> "idle", user_question |-> <<>>, started_with |-> initial_state(<<>>),
     state |-> initial_state(<<>>), received |-> <<>>, exc |-> "",
     answered |-> <<>>, result |-> NoResult]

NoThreads == [t \in Threads |-> IdleThread]

----------------------------------------------------------------------------
(* Values of KBFortressState *)

\* the keys of analysis_results, in the order of analysis_questions
AnalysisTypes == <<"macro_exposure", "kb_products", "policies", "news_impacts",
                   "similar_companies">>

\* company_data; <<>>, "" and 0 mark a key that is absent.  Industry, location,
\* revenue, employees and debt only travel on as query parameters and are
\* left out
EmptyCompanyData ==
    [company_name |-> <<>>, analysis_request |-> FALSE, node_id |-> "",
     relationships_created |-> 0, variable_debt_ratio |-> 0, export_ratio |-> 0]

\* initial_state of process_request
InitialFortressState(msgs) ==
    [messages |-> msgs, task_type |-> "", company_data |-> EmptyCompanyData,
     user_company_node_id |-> "", cypher_query |-> <<>>, db_results |-> <<>>,
     analysis_results |-> <<>>, risk_assessment |-> "", recommendations |-> <<>>,
     final_report |-> <<>>, error_history |-> <<>>, correction_attempts |-> 0,
     current_stage |-> "started", confidence_score |-> 0,
     section_explanations |-> ""]

NoQuestionLog == [generate |-> 0, correct |-> 0, execute |-> 0]


----------------------------------------------------------------------------
(* Neo4jManager *)

\* execute_query without its try/except: the driver's exception reaches the
\* caller
execute_query_reraise(drv) ==
    [raised |-> drv.raised, rows |-> drv.rows, error |-> drv.error]

\* Neo4jManager.execute_query: the rows of the query, or [] when the driver
\* raised; the exception is logged and never re-raised
execute_query(drv) ==
    IF drv.raised
    THEN [raised |-> FALSE, rows |-> <<>>, error |-> ""]
    ELSE [raised |-> FALSE, rows |-> drv.rows, error |-> ""]

----------------------------------------------------------------------------
(* Initial values of the other components of the repository *)

\* fastapi_server.py: "kb_service = None"; no connection has been opened
ConnectingComponents == {"unified_agent", "multihop_analyzer",
                         "relationship_manager"}
NoServer == [kb_service |-> "None",
             opened |-> [c \in ConnectingComponents |-> 0],
             closed |-> {},
             log |-> <<>>,
             shutdown |-> FALSE]

\* the dict extract_graph_elements returns from its except branch
EmptyGraph == [nodes |-> <<>>, relationships |-> <<>>]

\* no call of process_batch_with_retry has been made
IdleRetry == [pc |-> "idle", batch_name |-> "", max_retries |-> DefaultMaxRetries,
              attempt |-> 0, extract_calls |-> 0, responses |-> <<>>,
              outcomes |-> <<>>, result |-> EmptyGraph, propagated |-> FALSE]

\* build_complete_graph has not been called
IdleBatch == [pc |-> "idle", attempted |-> <<>>, responses |-> <<>>,
              all_nodes |-> <<>>, all_relationships |-> <<>>,
              offline |-> FALSE]

\* ui/app.py and ui/business_app.py each construct a DynamicUserCompanyManager
\* on the same store
Managers == {"app", "business_app"}
\* a manager that is not inside create_user_company_from_input
IdleManager == [pc |-> "idle", user_input |-> "", company_name |-> "",
                existed |-> FALSE]
\* the store holds no UserCompany node, no call has been made
NoCompany == [store |-> {}, log |-> <<>>,
              managers |-> [m \in Managers |-> IdleManager]]

----------------------------------------------------------------------------
(* KBTextToCypherAgent *)

Init ==
    /\ agent = "none"
    /\ calls = 0
    /\ pc = "idle"
    /\ step = 0
    /\ messages = <<>>
    /\ cypher_query = <<>>
    /\ db_outputs = <<>>
    /\ error_history = <<>>
    /\ correction_attempts = 0
    /\ final_answer = <<>>
    /\ exc = ""
    /\ result = NoResult
    /\ trace = <<>>
    /\ execLog = <<>>
    /\ llmLog = <<>>
    /\ fortress_state = InitialFortressState(<<>>)
    /\ analysis_local = <<>>
    /\ question_log = NoQuestionLog
    /\ request_text = <<>>
    /\ errors_recorded = <<>>
    /\ threads = NoThreads
    /\ server = NoServer
    /\ retry = IdleRetry
    /\ batch = IdleBatch
    /\ company = NoCompany

\* process_question, up to the call of self.workflow.invoke(initial_state)
process_question(user_question) ==
    /\ pc \in {"idle", "done"}
    /\ calls < MaxCalls
    /\ calls' = calls + 1
    /\ agent' = "text"
    /\ pc' = "generate_cypher"
    /\ step' = 0
    /\ messages' = add_messages(<<>>, <<HumanMessage(user_question)>>)
    /\ cypher_query' = <<>>
    /\ db_outputs' = <<>>
    /\ error_history' = <<>>
    /\ correction_attempts' = 0
    /\ final_answer' = <<>>
    /\ exc' = ""
    /\ result' = NoResult
    /\ trace' = <<>>
    /\ execLog' = <<>>
    /\ llmLog' = <<>>
    /\ fortress_state' = InitialFortressState(<<>>)
    /\ analysis_local' = <<>>
    /\ question_log' = NoQuestionLog
    /\ request_text' = user_question
    /\ errors_recorded' = <<>>
    /\ UNCHANGED threads
    /\ UNCHANGED componentVars

\* generate_cypher, followed by the edge generate_cypher -> execute_cypher
generate_cypher(llm) ==
    /\ agent = "text" /\ pc = "generate_cypher" /\ step < RecursionLimit
    /\ step' = step + 1
    /\ trace' = Append(trace, "generate_cypher")
    /\ llmLog' = Append(llmLog, [node |-> "generate_cypher", raised |-> llm.raised,
                                  question |-> IF messages # <<>>
                                               THEN messages[Len(messages)].content
                                               ELSE <<>>,
                                  error_message |-> "", history |-> <<>>])
    /\ IF ~llm.raised
       THEN /\ cypher_query' = strip_backticks(llm.content)
            /\ messages' = add_messages(messages,
                                <<AIMessage(strip_backticks(llm.content))>>)
            /\ UNCHANGED error_history
       ELSE /\ cypher_query' = <<>>
            /\ error_history' = <<ErrorEntry("generate", NoQuery, llm.error)>>
            /\ UNCHANGED messages
    /\ errors_recorded' = IF llm.raised
                          THEN Append(errors_recorded,
                                      ErrorEntry("generate", NoQuery, llm.error))
                          ELSE errors_recorded
    /\ pc' = "execute_cypher"
    /\ UNCHANGED unifiedVars
    /\ UNCHANGED <<request_text, threads>>
    /\ UNCHANGED componentVars
    /\ UNCHANGED <<agent, calls, db_outputs, correction_attempts, final_answer,
                   exc, result, execLog>>

\* route_correction with every list, the empty one included, taken as success
route_correction_any_list(outputs, attempts) ==
    IF outputs = <<>> THEN "correct_cypher"
    ELSE LET db_result == outputs[Len(outputs)] IN
         IF db_result.kind = "list" THEN "answer"
         ELSE IF attempts >= MaxAttempts THEN "answer" ELSE "correct_cypher"

\* route_correction
route_correction(outputs, attempts) ==
    IF outputs = <<>> THEN "correct_cypher"
    ELSE LET db_result == outputs[Len(outputs)] IN
         IF db_result.kind = "list"
         THEN IF Len(db_result.rows) > 0 THEN "answer"
              ELSE IF attempts >= MaxAttempts THEN "answer" ELSE "correct_cypher"
         ELSE IF attempts >= MaxAttempts THEN "answer" ELSE "correct_cypher"

\* the conditional edge with both labels mapped to generate_answer
route_target_answer_only(label) == "generate_answer"

\* the mapping of the conditional edge of execute_cypher
route_target(label) ==
    IF label = "correct_cypher" THEN "correct_cypher" ELSE "generate_answer"

\* execute_cypher returning "correction_attempts": 0 instead of the value it
\* read from the state
execute_cypher_reset_attempts(drv) ==
    /\ agent = "text" /\ pc = "execute_cypher" /\ step < RecursionLimit
    /\ step' = step + 1
    /\ trace' = Append(trace, "execute_cypher")
    /\ IF cypher_query = <<>>
       THEN \* "if not cypher_query": nothing is sent to the store
            /\ db_outputs' = <<>>
            /\ error_history' = <<ErrorEntry("execute", NoQuery, "empty query")>>
            /\ errors_recorded' = Append(errors_recorded,
                                         ErrorEntry("execute", NoQuery, "empty query"))
            /\ correction_attempts' = 0
            /\ execLog' = Append(execLog,
                   [query |-> cypher_query, sent |-> FALSE, driver |-> "none",
                    driver_error |-> "",
                    attempts |-> correction_attempts,
                    outputs |-> <<>>,
                    history |-> <<ErrorEntry("execute", NoQuery, "empty query")>>,
                    next |-> route_target(route_correction(<<>>, correction_attempts))])
            /\ pc' = route_target(route_correction(<<>>, correction_attempts))
       ELSE LET r == execute_query(drv)
                outs == IF r.raised THEN <<StrValue(r.error)>>
                        ELSE <<ListValue(r.rows)>>
                hist == IF r.raised
                        THEN Append(error_history,
                                    ErrorEntry("execute", cypher_query, r.error))
                        ELSE error_history
            IN /\ db_outputs' = outs
               /\ error_history' = hist
               /\ errors_recorded' =
                      IF r.raised
                      THEN Append(errors_recorded,
                                  ErrorEntry("execute", cypher_query, r.error))
                      ELSE errors_recorded
               /\ correction_attempts' = 0
               /\ execLog' = Append(execLog,
                      [query |-> cypher_query, sent |-> TRUE,
                       driver |-> IF drv.raised THEN "raised"
                                  ELSE IF drv.rows = <<>> THEN "empty" ELSE "rows",
                       driver_error |-> drv.error,
                       attempts |-> correction_attempts,
                       outputs |-> outs,
                       history |-> hist,
                       next |-> route_target(route_correction(outs, correction_attempts))])
               /\ pc' = route_target(route_correction(outs, correction_attempts))
    /\ UNCHANGED unifiedVars
    /\ UNCHANGED <<request_text, threads>>
    /\ UNCHANGED componentVars
    /\ UNCHANGED <<agent, calls, messages, cypher_query, final_answer, exc, result,
                   llmLog>>

\* execute_cypher, followed by its conditional edge (route_correction)
execute_cypher(drv) ==
    /\ agent = "text" /\ pc = "execute_cypher" /\ step < RecursionLimit
    /\ step' = step + 1
    /\ trace' = Append(trace, "execute_cypher")
    /\ IF cypher_query = <<>>
       THEN \* "if not cypher_query": nothing is sent to the store
            /\ db_outputs' = <<>>
            /\ error_history' = <<ErrorEntry("execute", NoQuery, "empty query")>>
            /\ errors_recorded' = Append(errors_recorded,
                                         ErrorEntry("execute", NoQuery, "empty query"))
            /\ UNCHANGED correction_attempts
            /\ execLog' = Append(execLog,
                   [query |-> cypher_query, sent |-> FALSE, driver |-> "none",
                    driver_error |-> "",
                    attempts |-> correction_attempts,
                    outputs |-> <<>>,
                    history |-> <<ErrorEntry("execute", NoQuery, "empty query")>>,
                    next |-> route_target(route_correction(<<>>, correction_attempts))])
            /\ pc' = route_target(route_correction(<<>>, correction_attempts))
       ELSE LET r == execute_query(drv)
                outs == IF r.raised THEN <<StrValue(r.error)>>
                        ELSE <<ListValue(r.rows)>>
                hist == IF r.raised
                        THEN Append(error_history,
                                    ErrorEntry("execute", cypher_query, r.error))
                        ELSE error_history
            IN /\ db_outputs' = outs
               /\ error_history' = hist
               /\ errors_recorded' =
                      IF r.raised
                      THEN Append(errors_recorded,
                                  ErrorEntry("execute", cypher_query, r.error))
                      ELSE errors_recorded
               /\ UNCHANGED correction_attempts
               /\ execLog' = Append(execLog,
                      [query |-> cypher_query, sent |-> TRUE,
                       driver |-> IF drv.raised THEN "raised"
                                  ELSE IF drv.rows = <<>> THEN "empty" ELSE "rows",
                       driver_error |-> drv.error,
                       attempts |-> correction_attempts,
                       outputs |-> outs,
                       history |-> hist,
                       next |-> route_target(route_correction(outs, correction_attempts))])
               /\ pc' = route_target(route_correction(outs, correction_attempts))
    /\ UNCHANGED unifiedVars
    /\ UNCHANGED <<request_text, threads>>
    /\ UNCHANGED componentVars
    /\ UNCHANGED <<agent, calls, messages, cypher_query, final_answer, exc, result,
                   llmLog>>

Last(seq) == seq[Len(seq)]
LastN(s, n) == IF Len(s) <= n THEN s ELSE SubSeq(s, Len(s) - n + 1, Len(s))

\* correct_cypher with the increment of correction_attempts left out of its
\* except branch
correct_cypher_no_increment(llm) ==
    /\ agent = "text" /\ pc = "correct_cypher" /\ step < RecursionLimit
    /\ step' = step + 1
    /\ trace' = Append(trace, "correct_cypher")
    /\ llmLog' = Append(llmLog,
           [node |-> "correct_cypher", raised |-> llm.raised,
            question |-> IF messages # <<>> THEN messages[1].content ELSE <<>>,
            failed_query |-> cypher_query,
            error_message |-> IF error_history # <<>>
                              THEN error_history[Len(error_history)].error
                              ELSE "",
            history |-> LastN(error_history, HistoryWindow)])
    /\ IF ~llm.raised
       THEN /\ cypher_query' = strip_backticks(llm.content)
            /\ correction_attempts' = correction_attempts + 1
            /\ messages' = add_messages(messages,
                   messages \o <<AIMessage(strip_backticks(llm.content))>>)
            /\ UNCHANGED error_history
       ELSE /\ cypher_query' = fallback_query
            /\ correction_attempts' = correction_attempts
            /\ error_history' = error_history \o
                                <<ErrorEntry("correct", NoQuery, llm.error)>>
            /\ UNCHANGED messages
    /\ errors_recorded' = IF llm.raised
                          THEN Append(errors_recorded,
                                      ErrorEntry("correct", NoQuery, llm.error))
                          ELSE errors_recorded
    /\ pc' = "execute_cypher"
    /\ UNCHANGED unifiedVars
    /\ UNCHANGED <<request_text, threads>>
    /\ UNCHANGED componentVars
    /\ UNCHANGED <<agent, calls, db_outputs, final_answer, exc, result, execLog>>

\* correct_cypher, followed by the edge correct_cypher -> execute_cypher
correct_cypher(llm) ==
    /\ agent = "text" /\ pc = "correct_cypher" /\ step < RecursionLimit
    /\ step' = step + 1
    /\ trace' = Append(trace, "correct_cypher")
    /\ llmLog' = Append(llmLog,
           [node |-> "correct_cypher", raised |-> llm.raised,
            question |-> IF messages # <<>> THEN messages[1].content ELSE <<>>,
            failed_query |-> cypher_query,
            error_message |-> IF error_history # <<>>
                              THEN error_history[Len(error_history)].error
                              ELSE "",
            history |-> LastN(error_history, HistoryWindow)])
    /\ correction_attempts' = correction_attempts + 1
    /\ IF ~llm.raised
       THEN /\ cypher_query' = strip_backticks(llm.content)
            /\ messages' = add_messages(messages,
                   messages \o <<AIMessage(strip_backticks(llm.content))>>)
            /\ UNCHANGED error_history
       ELSE /\ cypher_query' = fallback_query
            /\ error_history' = error_history \o
                                <<ErrorEntry("correct", NoQuery, llm.error)>>
            /\ UNCHANGED messages
    /\ errors_recorded' = IF llm.raised
                          THEN Append(errors_recorded,
                                      ErrorEntry("correct", NoQuery, llm.error))
                          ELSE errors_recorded
    /\ pc' = "execute_cypher"
    /\ UNCHANGED unifiedVars
    /\ UNCHANGED <<request_text, threads>>
    /\ UNCHANGED componentVars
    /\ UNCHANGED <<agent, calls, db_outputs, final_answer, exc, result, execLog>>

\* generate_answer reading the question from messages[-1], as generate_cypher
\* does, instead of messages[0]
generate_answer_last_message(llm) ==
    /\ agent = "text" /\ pc = "generate_answer" /\ step < RecursionLimit
    /\ step' = step + 1
    /\ trace' = Append(trace, "generate_answer")
    /\ llmLog' = Append(llmLog,
           [node |-> "generate_answer", raised |-> llm.raised,
            question |-> IF messages # <<>> THEN Last(messages).content ELSE <<>>,
            error_message |-> "", history |-> <<>>])
    /\ LET answer == IF llm.raised THEN error_answer ELSE llm.content
       IN /\ final_answer' = answer
          /\ messages' = add_messages(messages, messages \o <<AIMessage(answer)>>)
    /\ pc' = "END"
    /\ UNCHANGED unifiedVars
    /\ UNCHANGED <<request_text, errors_recorded, threads>>
    /\ UNCHANGED componentVars
    /\ UNCHANGED <<agent, calls, cypher_query, db_outputs, error_history,
                   correction_attempts, exc, result, execLog>>

\* generate_answer, followed by the edge generate_answer -> END
generate_answer(llm) ==
    /\ agent = "text" /\ pc = "generate_answer" /\ step < RecursionLimit
    /\ step' = step + 1
    /\ trace' = Append(trace, "generate_answer")
    /\ llmLog' = Append(llmLog,
           [node |-> "generate_answer", raised |-> llm.raised,
            question |-> IF messages # <<>> THEN messages[1].content ELSE <<>>,
            error_message |-> "", history |-> <<>>])
    /\ LET answer == IF llm.raised THEN error_answer ELSE llm.content
       IN /\ final_answer' = answer
          /\ messages' = add_messages(messages, messages \o <<AIMessage(answer)>>)
    /\ pc' = "END"
    /\ UNCHANGED unifiedVars
    /\ UNCHANGED <<request_text, errors_recorded, threads>>
    /\ UNCHANGED componentVars
    /\ UNCHANGED <<agent, calls, cypher_query, db_outputs, error_history,
                   correction_attempts, exc, result, execLog>>

\* process_question returning its result without the final_answer key
process_question_return_no_answer ==
    /\ agent = "text" /\ pc = "END"
    /\ result' = [keys |-> {"success", "question", "cypher_query",
                            "db_results", "correction_attempts", "execution_time",
                            "error_history"},
                  success |-> TRUE,
                  question |-> request_text,
                  final_answer |-> <<>>,
                  cypher_query |-> cypher_query,
                  db_results |-> db_outputs,
                  correction_attempts |-> correction_attempts,
                  error_history |-> error_history,
                  error |-> ""]
    /\ pc' = "done"
    /\ UNCHANGED unifiedVars
    /\ UNCHANGED <<request_text, errors_recorded, threads>>
    /\ UNCHANGED componentVars
    /\ UNCHANGED <<agent, calls, step, messages, cypher_query, db_outputs,
                   error_history, correction_attempts, final_answer, exc, trace,
                   execLog, llmLog>>

\* process_question: the try branch after self.workflow.invoke returned
process_question_return ==
    /\ agent = "text" /\ pc = "END"
    /\ result' = [keys |-> {"success", "question", "final_answer", "cypher_query",
                            "db_results", "correction_attempts", "execution_time",
                            "error_history"},
                  success |-> TRUE,
                  question |-> request_text,
                  final_answer |-> final_answer,
                  cypher_query |-> cypher_query,
                  db_results |-> db_outputs,
                  correction_attempts |-> correction_attempts,
                  error_history |-> error_history,
                  error |-> ""]
    /\ pc' = "done"
    /\ UNCHANGED unifiedVars
    /\ UNCHANGED <<request_text, errors_recorded, threads>>
    /\ UNCHANGED componentVars
    /\ UNCHANGED <<agent, calls, step, messages, cypher_query, db_outputs,
                   error_history, correction_attempts, final_answer, exc, trace,
                   execLog, llmLog>>

\* self.workflow.invoke: the engine raises GraphRecursionError when the
\* recursion limit is used up and a node is still due; no node of this
\* workflow lets an exception of its own escape
workflow_recursion_error ==
    /\ agent = "text" /\ pc \in Nodes /\ step >= RecursionLimit
    /\ exc' = "GraphRecursionError"
    /\ pc' = "RAISED"
    /\ UNCHANGED unifiedVars
    /\ UNCHANGED <<request_text, errors_recorded, threads>>
    /\ UNCHANGED componentVars
    /\ UNCHANGED <<agent, calls, step, messages, cypher_query, db_outputs,
                   error_history, correction_attempts, final_answer, result,
                   trace, execLog, llmLog>>

\* process_question without its except branch: the exception reaches the
\* caller and no result is returned
process_question_reraise ==
    /\ agent = "text" /\ pc = "RAISED"
    /\ result' = NoResult
    /\ pc' = "done"
    /\ UNCHANGED unifiedVars
    /\ UNCHANGED <<request_text, errors_recorded, threads>>
    /\ UNCHANGED componentVars
    /\ UNCHANGED <<agent, calls, step, messages, cypher_query, db_outputs,
                   error_history, correction_attempts, final_answer, exc, trace,
                   execLog, llmLog>>

\* process_question: the except branch
process_question_except ==
    /\ agent = "text" /\ pc = "RAISED"
    /\ result' = [NoResult EXCEPT
                    !.keys = {"success", "question", "error", "final_answer"},
                    !.success = FALSE,
                    !.question = request_text,
                    !.error = exc,
                    !.final_answer = system_error_answer]
    /\ pc' = "done"
    /\ UNCHANGED unifiedVars
    /\ UNCHANGED <<request_text, errors_recorded, threads>>
    /\ UNCHANGED componentVars
    /\ UNCHANGED <<agent, calls, step, messages, cypher_query, db_outputs,
                   error_history, correction_attempts, final_answer, exc, trace,
                   execLog, llmLog>>

Next ==
    \/ \E q \in Questions : process_question(q)
    \/ \E llm \in LLMOutcomes : generate_cypher(llm)
    \/ \E drv \in DriverOutcomes : execute_cypher(drv)
    \/ \E llm \in LLMOutcomes : correct_cypher(llm)
    \/ \E llm \in LLMOutcomes : generate_answer(llm)
    \/ process_question_return
    \/ workflow_recursion_error
    \/ process_question_except

Spec == Init /\ [][Next]_vars

----------------------------------------------------------------------------
(* KBFortressUnifiedAgent.  The Korean keywords of route_task and of the   *)
(* company-name patterns are rendered as ASCII tokens.                     *)

\* route_task: the keywords of a registration request
RegisterKeywords == {"register", "company_name:", "industry:", "revenue:", "employee"}
\* route_task: the keywords of an analysis request
AnalyzeKeywords == {"analysis", "risk", "danger", "diagnosis"}
\* the suffixes of the pattern <name> (company | enterprise | of)
CompanySuffixes == {"company", "enterprise", "of"}

UserInputs ==
    { <<"register", "company_name:", "Daehan", ",", "variable_rate", "50%">>,
      <<"register", "a", "new", "firm">>,
      <<"register", "company_name:", ",", "export", "40%">>,
      <<"Daehan", "of", "risk", "analysis">>,
      <<"risk", "diagnosis">>,
      <<"Which KB products are there?">> }

\* "RETURN '<query generation failed>' as message"
generation_failed_query == <<"RETURN 'query generation failed' as message">>
\* "RETURN '<query correction failed>' as message"
unified_fallback_query == <<"RETURN 'query correction failed' as message">>
\* final_report of the except branch of generate_report
report_error_text == <<"Sorry. An error occurred while generating the report.">>
\* final_report of the except branch of process_request
request_error_text == <<"An error occurred during system processing. Please try again.">>

UnifiedLLMOutcomes ==
    LLMOutcomes \cup
    { [raised |-> FALSE, content |-> generation_failed_query, error |-> ""] }

\* a row of the dependency query whose cost_ratio is null
DependencyOutcomes ==
    DriverOutcomes \cup { [raised |-> FALSE, rows |-> <<"null_row">>, error |-> ""] }

UnifiedNodes == {"route_task", "register_company", "analyze_risk", "generate_cypher",
                 "execute_cypher", "correct_cypher", "find_solutions",
                 "generate_report"}

\* any(keyword in last_message for keyword in [...])
ContainsAny(text, keywords) == \E i \in 1..Len(text) : text[i] \in keywords

\* A text is its words joined by single spaces; "," and "\n" are words of
\* their own.

\* the tokens "<digits>%" and the number int() reads from them
PercentTokens == {"50%", "40%"}
percent_value(token) == IF token = "50%" THEN 50 ELSE 40

\* the labels of the patterns <company name>[:\s]*([^\n,]+),
\* <variable rate>[:\s]*(\d+)% and <export>[<ratio>]*[:\s]*(\d+)%
CompanyNameLabels == {"company_name", "company_name:"}
VariableRateLabels == {"variable_rate", "variable_rate:"}
ExportLabels == {"export", "export:", "export_ratio", "export_ratio:"}

RECURSIVE skip_newlines(_)
\* [:\s]* runs over the newlines that follow the label
skip_newlines(text) ==
    IF text # <<>> /\ Head(text) = "\n" THEN skip_newlines(Tail(text)) ELSE text

\* re.search(label [:\s]* (\d+)%): the number of the leftmost label that a
\* percent token follows, <<>> without a match
percent_after(text, labels) ==
    LET follows(i) == skip_newlines(SubSeq(text, i + 1, Len(text)))
        hits == { i \in 1..Len(text) :
                    /\ text[i] \in labels
                    /\ follows(i) # <<>>
                    /\ Head(follows(i)) \in PercentTokens }
    IN IF hits = {} THEN <<>>
       ELSE <<percent_value(Head(follows(CHOOSE i \in hits : \A j \in hits : i <= j)))>>

RECURSIVE until_separator(_)
\* ([^\n,]+): everything up to the end of the line or the next comma
until_separator(text) ==
    IF text = <<>> \/ Head(text) \in {",", "\n"} THEN <<>>
    ELSE <<Head(text)>> \o until_separator(Tail(text))

\* _extract_company_info.  company_name is the stripped text that follows
\* the leftmost company-name label up to the end of the line or a comma.
\* When the line ends or a comma comes first, the group is the space that
\* [:\s]* gives back and the name is the empty string, <<"">>; when the
\* label ends the text, the group is the colon of the label, and a label
\* without a colon does not match.  The key is missing, <<>>, without a
\* match.  The ratios are 70 and 20 unless the text states them.
extract_company_info(text) ==
    LET hits == { i \in 1..Len(text) : text[i] \in CompanyNameLabels }
        first == CHOOSE i \in hits : \A j \in hits : i <= j
        group == until_separator(skip_newlines(SubSeq(text, first + 1, Len(text))))
        variable_match == percent_after(text, VariableRateLabels)
        export_match == percent_after(text, ExportLabels)
    IN [EmptyCompanyData EXCEPT
          !.company_name =
              IF hits = {} THEN <<>>
              ELSE IF first = Len(text)
              THEN (IF text[first] = "company_name:" THEN <<":">> ELSE <<>>)
              ELSE IF group = <<>> THEN <<"">> ELSE group,
          !.variable_debt_ratio = IF variable_match = <<>> THEN 70
                                  ELSE variable_match[1],
          !.export_ratio = IF export_match = <<>> THEN 20 ELSE export_match[1]]

\* the words that are not made of the characters [<hangul>a-zA-Z0-9\-] only
NonWordTokens ==
    {",", "\n", "", "company_name:", "industry:", "revenue:", "variable_rate:",
     "export:", "export_ratio:"} \cup PercentTokens
\* the words that begin with (company | enterprise | of): the suffixes and
\* the company-name label, whose first syllables are the suffix <company>
SuffixWords == CompanySuffixes \cup CompanyNameLabels

\* re.search of ([<hangul>a-zA-Z0-9\-]+) \s* (company | enterprise | of): the
\* word of the leftmost match, <<>> without a match
regex_company_name(text) ==
    LET follows(i) == skip_newlines(SubSeq(text, i + 1, Len(text)))
        hits == { i \in 1..Len(text) :
                    /\ text[i] \notin NonWordTokens
                    /\ follows(i) # <<>>
                    /\ Head(follows(i)) \in SuffixWords }
    IN IF hits = {} THEN <<>>
       ELSE <<text[CHOOSE i \in hits : \A j \in hits : i <= j]>>

\* "not company_name": the key is missing or the name is the empty string
NoName(company_name) == company_name \in {<<>>, <<"">>}

\* route_task
route_task(state) ==
    LET last_message == IF state.messages # <<>>
                        THEN Last(state.messages).content ELSE <<>>
    IN IF ContainsAny(last_message, RegisterKeywords)
       THEN [state EXCEPT !.task_type = "register",
                          !.company_data = extract_company_info(last_message),
                          !.current_stage = "routing"]
       ELSE IF ContainsAny(last_message, AnalyzeKeywords)
       THEN [state EXCEPT !.task_type = "analyze",
                          !.company_data =
                              [EmptyCompanyData EXCEPT
                                 !.analysis_request = TRUE,
                                 !.company_name = regex_company_name(last_message)],
                          !.current_stage = "routing"]
       ELSE [state EXCEPT !.task_type = "query",
                          !.company_data = EmptyCompanyData,
                          !.current_stage = "routing"]

\* route_by_task_type and the mapping of the conditional edge of route_task
route_by_task_type(state) ==
    IF state.task_type = "register" THEN "register_company"
    ELSE IF state.task_type = "analyze" THEN "analyze_risk"
    ELSE "generate_cypher"

\* generate_cypher answering a failed LLM call with the fixed query that
\* analyze_risk tests for
unified_generate_cypher_failed_query(state, llm) ==
    IF ~llm.raised
    THEN [state EXCEPT !.cypher_query = strip_backticks(llm.content),
                       !.current_stage = "cypher_generated"]
    ELSE [state EXCEPT !.cypher_query = generation_failed_query,
                       !.error_history =
                           <<ErrorEntry("generate_cypher", NoQuery, llm.error)>>,
                       !.current_stage = "cypher_failed"]

\* KBFortressUnifiedAgent.generate_cypher
unified_generate_cypher(state, llm) ==
    IF ~llm.raised
    THEN [state EXCEPT !.cypher_query = strip_backticks(llm.content),
                       !.current_stage = "cypher_generated"]
    ELSE [state EXCEPT !.error_history =
                           <<ErrorEntry("generate_cypher", NoQuery, llm.error)>>,
                       !.current_stage = "cypher_failed"]

\* KBFortressUnifiedAgent.execute_cypher
unified_execute_cypher(state, drv) ==
    IF state.cypher_query = <<>>
    THEN [state EXCEPT !.db_results = <<>>, !.current_stage = "execution_failed"]
    ELSE LET r == execute_query(drv) IN
         IF ~r.raised
         THEN [state EXCEPT !.db_results = r.rows,
                            !.current_stage = "cypher_executed"]
         ELSE [state EXCEPT !.db_results = <<r.error>>,
                            !.error_history =
                                Append(state.error_history,
                                       ErrorEntry("execute", state.cypher_query, r.error)),
                            !.current_stage = "execution_failed"]

\* isinstance(x, str) for an element of db_results: a row is a dict
IsStr(x) == x \notin {"row", "null_row"}

\* route_correction with the policy of KBTextToCypherAgent: zero rows are
\* corrected like an error
unified_route_correction_zero_rows(state) ==
    IF state.db_results # <<>> /\ ~IsStr(state.db_results[1])
    THEN "continue"
    ELSE IF state.correction_attempts < 2 THEN "correct" ELSE "continue"

\* KBFortressUnifiedAgent.route_correction
unified_route_correction(state) ==
    IF ~(state.db_results # <<>> /\ IsStr(state.db_results[1]))
    THEN "continue"
    ELSE IF state.correction_attempts < 2 THEN "correct" ELSE "continue"

\* the conditional edge with both labels mapped to correct_cypher
unified_route_target_always_correct(label) == "correct_cypher"

\* the mapping of the conditional edge of execute_cypher
unified_route_target(label) ==
    IF label = "correct" THEN "correct_cypher" ELSE "find_solutions"

\* KBFortressUnifiedAgent.correct_cypher
unified_correct_cypher(state, llm) ==
    IF ~llm.raised
    THEN [state EXCEPT !.cypher_query = strip_backticks(llm.content),
                       !.correction_attempts = state.correction_attempts + 1,
                       !.current_stage = "cypher_corrected"]
    ELSE [state EXCEPT !.cypher_query = unified_fallback_query,
                       !.correction_attempts = state.correction_attempts + 1,
                       !.current_stage = "correction_failed"]

\* _generate_recommendations
generate_recommendations(analysis_results) ==
    (IF analysis_results # <<>> /\ analysis_results[2] # <<>>
     THEN <<"KB_PRODUCT">> ELSE <<>>)
    \o (IF analysis_results # <<>> /\ analysis_results[3] # <<>>
        THEN <<"GOVERNMENT_POLICY">> ELSE <<>>)

\* _calculate_confidence_score, in hundredths
calculate_confidence_score(state) ==
    LET base == 80
        minus == Len(state.error_history) * 10 + state.correction_attempts * 5
        score == IF minus >= base THEN 0 ELSE base - minus
    IN IF score < 30 THEN 30 ELSE IF score > 100 THEN 100 ELSE score

\* analyze_risk: state["company_name"] is not a key of KBFortressState, so
\* the name comes from company_data, else from the first message, else the
\* default
analysis_company_name(state) ==
    LET from_message == IF state.messages # <<>>
                        THEN regex_company_name(state.messages[1].content)
                        ELSE <<>>
    IN IF ~NoName(state.company_data.company_name)
       THEN state.company_data.company_name
       ELSE IF from_message # <<>> THEN from_message
       ELSE <<"TestCompany">>

\* process_request, up to the call of self.workflow.invoke(initial_state)
process_request(user_input) ==
    /\ pc \in {"idle", "done"}
    /\ calls < MaxCalls
    /\ calls' = calls + 1
    /\ agent' = "unified"
    /\ pc' = "route_task"
    /\ step' = 0
    /\ fortress_state' =
           InitialFortressState(add_messages(<<>>, <<HumanMessage(user_input)>>))
    /\ analysis_local' = <<>>
    /\ question_log' = NoQuestionLog
    /\ request_text' = user_input
    /\ errors_recorded' = <<>>
    /\ UNCHANGED threads
    /\ UNCHANGED componentVars
    /\ messages' = <<>>
    /\ cypher_query' = <<>>
    /\ db_outputs' = <<>>
    /\ error_history' = <<>>
    /\ correction_attempts' = 0
    /\ final_answer' = <<>>
    /\ exc' = ""
    /\ result' = NoResult
    /\ trace' = <<>>
    /\ execLog' = <<>>
    /\ llmLog' = <<>>

\* node route_task, followed by its conditional edge (route_by_task_type)
unified_route_task_node ==
    /\ agent = "unified" /\ pc = "route_task" /\ step < RecursionLimit
    /\ step' = step + 1
    /\ trace' = Append(trace, "route_task")
    /\ fortress_state' = route_task(fortress_state)
    /\ pc' = route_by_task_type(route_task(fortress_state))
    /\ UNCHANGED textVars
    /\ UNCHANGED <<request_text, errors_recorded, threads>>
    /\ UNCHANGED componentVars
    /\ UNCHANGED <<agent, calls, exc, result, execLog, llmLog, analysis_local,
                   question_log>>

\* node register_company, followed by the edge register_company -> analyze_risk
unified_register_company_node(drv, created) ==
    /\ agent = "unified" /\ pc = "register_company" /\ step < RecursionLimit
    /\ step' = step + 1
    /\ trace' = Append(trace, "register_company")
    /\ LET company_data == fortress_state.company_data
           r == execute_query(drv)
           node_id == IF ~r.raised /\ r.rows # <<>> THEN "node-1" ELSE ""
       IN IF r.raised
          THEN fortress_state' =
                   [fortress_state EXCEPT
                      !.error_history = <<ErrorEntry("register", NoQuery, r.error)>>,
                      !.current_stage = "registration_failed"]
          ELSE IF node_id # ""
          THEN fortress_state' =
                   [fortress_state EXCEPT
                      !.user_company_node_id = node_id,
                      !.current_stage = "company_registered",
                      !.company_data =
                          [company_data EXCEPT !.node_id = node_id,
                                               !.relationships_created = created]]
          ELSE /\ created = 0
               /\ fortress_state' =
                   [fortress_state EXCEPT
                      !.error_history =
                          <<ErrorEntry("register", NoQuery, "node creation failed")>>,
                      !.current_stage = "registration_failed"]
    /\ pc' = "analyze_risk"
    /\ UNCHANGED textVars
    /\ UNCHANGED <<request_text, errors_recorded, threads>>
    /\ UNCHANGED componentVars
    /\ UNCHANGED <<agent, calls, exc, result, execLog, llmLog, analysis_local,
                   question_log>>

\* an iteration that calls generate_cypher a second time when the first
\* call gave no query
unified_analyze_risk_question_regenerate(llm, drv) ==
    /\ agent = "unified" /\ pc = "analyze_risk" /\ step < RecursionLimit
    /\ Len(analysis_local) < Len(AnalysisTypes)
    /\ LET idx == Len(analysis_local) + 1
           question == analysis_company_name(fortress_state)
                       \o <<AnalysisTypes[idx]>>
           cypher_state ==
               [InitialFortressState(<<HumanMessage(question)>>) EXCEPT
                  !.task_type = "query",
                  !.company_data = fortress_state.company_data,
                  !.current_stage = "cypher_generation"]
           query == unified_generate_cypher(cypher_state, llm).cypher_query
           r == execute_query(drv)
       IN IF query = <<>> \/ query = generation_failed_query
          THEN /\ analysis_local' = Append(analysis_local, <<>>)
               /\ question_log' = [generate |-> 2, correct |-> 0, execute |-> 0]
          ELSE IF ~r.raised
          THEN /\ analysis_local' = Append(analysis_local, r.rows)
               /\ question_log' = [generate |-> 1, correct |-> 0, execute |-> 1]
          ELSE \E llm2 \in UnifiedLLMOutcomes, drv2 \in DriverOutcomes :
                  LET correction_state ==
                          [cypher_state EXCEPT
                             !.cypher_query = query,
                             !.db_results = <<>>,
                             !.error_history = <<ErrorEntry("", query, r.error)>>,
                             !.correction_attempts = 1]
                      corrected_query ==
                          unified_correct_cypher(correction_state, llm2).cypher_query
                      r2 == execute_query(drv2)
                  IN IF corrected_query # <<>> /\ corrected_query # query
                     THEN /\ analysis_local' =
                                 Append(analysis_local,
                                        IF r2.raised THEN <<>> ELSE r2.rows)
                          /\ question_log' =
                                 [generate |-> 1, correct |-> 1, execute |-> 2]
                     ELSE /\ analysis_local' = Append(analysis_local, <<>>)
                          /\ question_log' =
                                 [generate |-> 1, correct |-> 1, execute |-> 1]
    /\ trace' = IF analysis_local = <<>> THEN Append(trace, "analyze_risk") ELSE trace
    /\ UNCHANGED textVars
    /\ UNCHANGED <<request_text, errors_recorded, threads>>
    /\ UNCHANGED componentVars
    /\ UNCHANGED <<agent, calls, pc, step, exc, result, execLog, llmLog,
                   fortress_state>>

\* node analyze_risk: one iteration of the loop over analysis_questions
unified_analyze_risk_question(llm, drv) ==
    /\ agent = "unified" /\ pc = "analyze_risk" /\ step < RecursionLimit
    /\ Len(analysis_local) < Len(AnalysisTypes)
    /\ LET idx == Len(analysis_local) + 1
           question == analysis_company_name(fortress_state)
                       \o <<AnalysisTypes[idx]>>
           cypher_state ==
               [InitialFortressState(<<HumanMessage(question)>>) EXCEPT
                  !.task_type = "query",
                  !.company_data = fortress_state.company_data,
                  !.current_stage = "cypher_generation"]
           query == unified_generate_cypher(cypher_state, llm).cypher_query
           r == execute_query(drv)
       IN IF query = <<>> \/ query = generation_failed_query
          THEN /\ analysis_local' = Append(analysis_local, <<>>)
               /\ question_log' = [generate |-> 1, correct |-> 0, execute |-> 0]
          ELSE IF ~r.raised
          THEN /\ analysis_local' = Append(analysis_local, r.rows)
               /\ question_log' = [generate |-> 1, correct |-> 0, execute |-> 1]
          ELSE \E llm2 \in UnifiedLLMOutcomes, drv2 \in DriverOutcomes :
                  LET correction_state ==
                          [cypher_state EXCEPT
                             !.cypher_query = query,
                             !.db_results = <<>>,
                             !.error_history = <<ErrorEntry("", query, r.error)>>,
                             !.correction_attempts = 1]
                      corrected_query ==
                          unified_correct_cypher(correction_state, llm2).cypher_query
                      r2 == execute_query(drv2)
                  IN IF corrected_query # <<>> /\ corrected_query # query
                     THEN /\ analysis_local' =
                                 Append(analysis_local,
                                        IF r2.raised THEN <<>> ELSE r2.rows)
                          /\ question_log' =
                                 [generate |-> 1, correct |-> 1, execute |-> 2]
                     ELSE /\ analysis_local' = Append(analysis_local, <<>>)
                          /\ question_log' =
                                 [generate |-> 1, correct |-> 1, execute |-> 1]
    /\ trace' = IF analysis_local = <<>> THEN Append(trace, "analyze_risk") ELSE trace
    /\ UNCHANGED textVars
    /\ UNCHANGED <<request_text, errors_recorded, threads>>
    /\ UNCHANGED componentVars
    /\ UNCHANGED <<agent, calls, pc, step, exc, result, execLog, llmLog,
                   fortress_state>>

\* node analyze_risk after the loop: the raw-material analysis, the risk
\* assessment and the section explanations (both fall back to defaults when
\* their LLM call fails), then "return state" and the edge to find_solutions.
\* _analyze_raw_material_dependencies multiplies cost_ratio by change_rate
\* outside any try: a row with a null raises TypeError out of the node
unified_analyze_risk_finish(dep) ==
    /\ agent = "unified" /\ pc = "analyze_risk" /\ step < RecursionLimit
    /\ Len(analysis_local) = Len(AnalysisTypes)
    /\ step' = step + 1
    /\ LET dependencies == execute_query(dep).rows
           company_data == fortress_state.company_data
       IN IF \E i \in 1..Len(dependencies) : dependencies[i] = "null_row"
          THEN /\ exc' = "TypeError"
               /\ pc' = "RAISED"
               /\ UNCHANGED fortress_state
          ELSE /\ fortress_state' =
                     [fortress_state EXCEPT
                        !.company_data =
                            [company_data EXCEPT
                               !.variable_debt_ratio =
                                   IF company_data.variable_debt_ratio = 0
                                   THEN 70 ELSE company_data.variable_debt_ratio,
                               !.export_ratio =
                                   IF company_data.export_ratio = 0
                                   THEN 20 ELSE company_data.export_ratio],
                        !.analysis_results = analysis_local,
                        !.risk_assessment = "assessed",
                        !.section_explanations = "explained",
                        !.current_stage = "risk_analyzed"]
               /\ pc' = "find_solutions"
               /\ UNCHANGED exc
    /\ UNCHANGED textVars
    /\ UNCHANGED <<request_text, errors_recorded, threads>>
    /\ UNCHANGED componentVars
    /\ UNCHANGED <<agent, calls, result, trace, execLog, llmLog, analysis_local,
                   question_log>>

\* node generate_cypher, followed by the edge generate_cypher -> execute_cypher
unified_generate_cypher_node(llm) ==
    /\ agent = "unified" /\ pc = "generate_cypher" /\ step < RecursionLimit
    /\ step' = step + 1
    /\ trace' = Append(trace, "generate_cypher")
    /\ llmLog' = Append(llmLog,
           [node |-> "generate_cypher", raised |-> llm.raised,
            question |-> IF fortress_state.messages # <<>>
                         THEN Last(fortress_state.messages).content ELSE <<>>,
            error_message |-> "", history |-> <<>>])
    /\ fortress_state' = unified_generate_cypher(fortress_state, llm)
    /\ pc' = "execute_cypher"
    /\ UNCHANGED textVars
    /\ UNCHANGED <<request_text, errors_recorded, threads>>
    /\ UNCHANGED componentVars
    /\ UNCHANGED <<agent, calls, exc, result, execLog, analysis_local, question_log>>

\* the feedback loop of the query flow: node execute_cypher followed by its
\* conditional edge (route_correction), and node correct_cypher followed by
\* the edge correct_cypher -> execute_cypher
unified_feedback_loop_node ==
    /\ agent = "unified" /\ pc \in {"execute_cypher", "correct_cypher"}
    /\ step < RecursionLimit
    /\ step' = step + 1
    /\ trace' = Append(trace, pc)
    /\ IF pc = "execute_cypher"
       THEN \E drv \in DriverOutcomes :
              LET new == unified_execute_cypher(fortress_state, drv)
                  sent == fortress_state.cypher_query # <<>>
              IN /\ fortress_state' = new
                 /\ pc' = unified_route_target(unified_route_correction(new))
                 /\ execLog' = Append(execLog,
                        [query |-> fortress_state.cypher_query, sent |-> sent,
                         driver |-> IF ~sent THEN "none"
                                    ELSE IF drv.raised THEN "raised"
                                    ELSE IF drv.rows = <<>> THEN "empty" ELSE "rows",
                         driver_error |-> IF sent THEN drv.error ELSE "",
                         attempts |-> fortress_state.correction_attempts,
                         outputs |-> new.db_results,
                         history |-> new.error_history,
                         next |-> unified_route_target(unified_route_correction(new))])
                 /\ UNCHANGED llmLog
       ELSE \E llm \in UnifiedLLMOutcomes :
              /\ fortress_state' = unified_correct_cypher(fortress_state, llm)
              /\ pc' = "execute_cypher"
              /\ llmLog' = Append(llmLog,
                     [node |-> "correct_cypher", raised |-> llm.raised,
                      question |-> IF fortress_state.messages # <<>>
                                   THEN fortress_state.messages[1].content ELSE <<>>,
                      error_message |-> IF fortress_state.error_history # <<>>
                                        THEN Last(fortress_state.error_history).error
                                        ELSE "",
                      history |-> <<>>])
              /\ UNCHANGED execLog
    /\ UNCHANGED textVars
    /\ UNCHANGED <<request_text, errors_recorded, threads>>
    /\ UNCHANGED componentVars
    /\ UNCHANGED <<agent, calls, exc, result, analysis_local, question_log>>

\* node find_solutions, followed by the edge find_solutions -> generate_report
unified_find_solutions_node ==
    /\ agent = "unified" /\ pc = "find_solutions" /\ step < RecursionLimit
    /\ step' = step + 1
    /\ trace' = Append(trace, "find_solutions")
    /\ fortress_state' =
           [fortress_state EXCEPT
              !.recommendations =
                  generate_recommendations(fortress_state.analysis_results),
              !.current_stage = "solutions_found"]
    /\ pc' = "generate_report"
    /\ UNCHANGED textVars
    /\ UNCHANGED <<request_text, errors_recorded, threads>>
    /\ UNCHANGED componentVars
    /\ UNCHANGED <<agent, calls, exc, result, execLog, llmLog, analysis_local,
                   question_log>>

\* node generate_report, followed by the edge generate_report -> END
unified_generate_report_node(llm) ==
    /\ agent = "unified" /\ pc = "generate_report" /\ step < RecursionLimit
    /\ step' = step + 1
    /\ trace' = Append(trace, "generate_report")
    /\ llmLog' = Append(llmLog,
           [node |-> "generate_report", raised |-> llm.raised,
            question |-> IF fortress_state.messages # <<>>
                         THEN fortress_state.messages[1].content ELSE <<>>,
            error_message |-> "", history |-> <<>>])
    /\ fortress_state' =
           IF ~llm.raised
           THEN [fortress_state EXCEPT
                   !.final_report = llm.content,
                   !.current_stage = "completed",
                   !.confidence_score =
                       calculate_confidence_score(
                           [fortress_state EXCEPT !.final_report = llm.content,
                                                  !.current_stage = "completed"])]
           ELSE [fortress_state EXCEPT
                   !.final_report = report_error_text,
                   !.current_stage = "report_failed",
                   !.confidence_score = 0]
    /\ pc' = "END"
    /\ UNCHANGED textVars
    /\ UNCHANGED <<request_text, errors_recorded, threads>>
    /\ UNCHANGED componentVars
    /\ UNCHANGED <<agent, calls, exc, result, execLog, analysis_local, question_log>>

\* process_request: the try branch after self.workflow.invoke returned
process_request_return ==
    /\ agent = "unified" /\ pc = "END"
    /\ result' = [keys |-> {"success", "task_type", "company_node_id", "final_report",
                            "recommendations", "confidence_score", "analysis_results",
                            "risk_assessment", "section_explanations",
                            "current_stage", "error_history"},
                  success |-> TRUE,
                  task_type |-> fortress_state.task_type,
                  company_node_id |-> fortress_state.user_company_node_id,
                  final_report |-> fortress_state.final_report,
                  recommendations |-> fortress_state.recommendations,
                  confidence_score |-> fortress_state.confidence_score,
                  analysis_results |-> fortress_state.analysis_results,
                  risk_assessment |-> fortress_state.risk_assessment,
                  section_explanations |-> fortress_state.section_explanations,
                  current_stage |-> fortress_state.current_stage,
                  error_history |-> fortress_state.error_history,
                  error |-> ""]
    /\ pc' = "done"
    /\ UNCHANGED textVars
    /\ UNCHANGED <<request_text, errors_recorded, threads>>
    /\ UNCHANGED componentVars
    /\ UNCHANGED unifiedVars
    /\ UNCHANGED <<agent, calls, step, exc, trace, execLog, llmLog>>

\* process_request: the except branch
process_request_except ==
    /\ agent = "unified" /\ pc = "RAISED"
    /\ result' = [keys |-> {"success", "error", "final_report"},
                  success |-> FALSE,
                  task_type |-> "",
                  company_node_id |-> "",
                  final_report |-> request_error_text,
                  recommendations |-> <<>>,
                  confidence_score |-> 0,
                  analysis_results |-> <<>>,
                  risk_assessment |-> "",
                  section_explanations |-> "",
                  current_stage |-> "",
                  error_history |-> <<>>,
                  error |-> exc]
    /\ pc' = "done"
    /\ UNCHANGED textVars
    /\ UNCHANGED <<request_text, errors_recorded, threads>>
    /\ UNCHANGED componentVars
    /\ UNCHANGED unifiedVars
    /\ UNCHANGED <<agent, calls, step, exc, trace, execLog, llmLog>>

UnifiedNext ==
    \/ \E u \in UserInputs : process_request(u)
    \/ unified_route_task_node
    \/ \E drv \in DriverOutcomes, created \in 0..MaxCreated :
          unified_register_company_node(drv, created)
    \/ \E llm \in UnifiedLLMOutcomes, drv \in DriverOutcomes :
          unified_analyze_risk_question(llm, drv)
    \/ \E dep \in DependencyOutcomes : unified_analyze_risk_finish(dep)
    \/ \E llm \in UnifiedLLMOutcomes : unified_generate_cypher_node(llm)
    \/ unified_feedback_loop_node
    \/ unified_find_solutions_node
    \/ \E llm \in UnifiedLLMOutcomes : unified_generate_report_node(llm)
    \/ process_request_return
    \/ process_request_except

UnifiedSpec == Init /\ [][UnifiedNext]_vars

\* both entry points, called one after the other by one caller
PipelineSpec == Init /\ [][Next \/ UnifiedNext]_vars

----------------------------------------------------------------------------
(* Concurrent callers of KBTextToCypherAgent.process_question.  Every call  *)
(* builds its own initial_state and self.workflow.invoke keeps the state of *)
(* a run in channels of that invocation (the workflow is compiled without a *)
(* checkpointer); the agent's attributes (llm, neo4j_manager, kb_schema,    *)
(* fewshot_examples, workflow) are only read.  The nodes are written here   *)
(* as functions from the state they are given to the state after their      *)
(* update has been applied.                                                 *)

\* the question each caller asks, in every call it makes
CallerQuestions ==
    [t \in Threads |-> IF t = "t1" THEN <<"What is CompanyX exposed to?">>
                                    ELSE <<"Recommend KB products">>]
\* what every LLM call of a run is given: the call raising, a text (a query),
\* the empty answer
ThreadLLMOutcomes ==
    { l \in LLMOutcomes : l.raised \/ l.content \in {<<"QUERY_A">>, <<>>} }
\* execute_cypher: what self.neo4j_manager.execute_query returns, which is []
\* when the query finds nothing and when the driver raises, or one row
ThreadDriverOutcomes ==
    { execute_query(d) : d \in { x \in DriverOutcomes : Len(x.rows) <= 1 } }
\* execute_cypher did not call the store
NoStoreCall == [raised |-> FALSE, rows |-> <<>>, error |-> "not called"]

\* generate_cypher
node_generate_cypher(state, llm) ==
    IF ~llm.raised
    THEN [state EXCEPT
            !.cypher_query = strip_backticks(llm.content),
            !.messages = add_messages(state.messages,
                             <<AIMessage(strip_backticks(llm.content))>>)]
    ELSE [state EXCEPT
            !.cypher_query = <<>>,
            !.error_history = <<ErrorEntry("generate", NoQuery, llm.error)>>]

\* execute_cypher
node_execute_cypher(state, drv) ==
    IF state.cypher_query = <<>>
    THEN [state EXCEPT
            !.db_outputs = <<>>,
            !.error_history = <<ErrorEntry("execute", NoQuery, "empty query")>>]
    ELSE LET r == execute_query(drv) IN
         IF ~r.raised
         THEN [state EXCEPT !.db_outputs = <<ListValue(r.rows)>>]
         ELSE [state EXCEPT
                 !.db_outputs = <<StrValue(r.error)>>,
                 !.error_history =
                     Append(state.error_history,
                            ErrorEntry("execute", state.cypher_query, r.error))]

\* correct_cypher
node_correct_cypher(state, llm) ==
    IF ~llm.raised
    THEN [state EXCEPT
            !.cypher_query = strip_backticks(llm.content),
            !.correction_attempts = state.correction_attempts + 1,
            !.messages = add_messages(state.messages,
                             state.messages \o
                             <<AIMessage(strip_backticks(llm.content))>>)]
    ELSE [state EXCEPT
            !.cypher_query = fallback_query,
            !.correction_attempts = state.correction_attempts + 1,
            !.error_history = state.error_history \o
                              <<ErrorEntry("correct", NoQuery, llm.error)>>]

\* generate_answer
node_generate_answer(state, llm) ==
    LET answer == IF llm.raised THEN error_answer ELSE llm.content
    IN [state EXCEPT
          !.final_answer = answer,
          !.messages = add_messages(state.messages,
                           state.messages \o <<AIMessage(answer)>>)]

\* the node a response is given to, applied to the state
apply_node(node, state, response) ==
    CASE node = "generate_cypher" -> node_generate_cypher(state, response)
      [] node = "execute_cypher" -> node_execute_cypher(state, response)
      [] node = "correct_cypher" -> node_correct_cypher(state, response)
      [] node = "generate_answer" -> node_generate_answer(state, response)

\* the edges of _build_workflow, taken from a node with the state it left
next_node(node, state) ==
    CASE node = "generate_cypher" -> "execute_cypher"
      [] node = "execute_cypher" ->
             route_target(route_correction(state.db_outputs,
                                           state.correction_attempts))
      [] node = "correct_cypher" -> "execute_cypher"
      [] node = "generate_answer" -> "END"

\* the dict process_question returns after self.workflow.invoke returned
question_result(user_question, state) ==
    [keys |-> {"success", "question", "final_answer", "cypher_query",
               "db_results", "correction_attempts", "execution_time",
               "error_history"},
     success |-> TRUE,
     question |-> user_question,
     final_answer |-> state.final_answer,
     cypher_query |-> state.cypher_query,
     db_results |-> state.db_outputs,
     correction_attempts |-> state.correction_attempts,
     error_history |-> state.error_history,
     error |-> ""]

\* the variables of the single caller
callerVars == <<agent, calls, pc, step, messages, cypher_query, db_outputs,
                error_history, correction_attempts, final_answer, exc, result,
                trace, execLog, llmLog, fortress_state, analysis_local,
                question_log, request_text, errors_recorded>>

\* process_question whose initial_state takes its error_history from a list
\* that all runs of the agent share
thread_process_question_shared_history(t, user_question) ==
    /\ threads[t].pc \in {"idle", "done"}
    /\ LET shared == CHOOSE h \in { threads[u].state.error_history : u \in Threads } :
                        \A u \in Threads : Len(threads[u].state.error_history) <= Len(h)
           started == [initial_state(user_question) EXCEPT !.error_history = shared]
       IN threads' = [threads EXCEPT ![t] =
                         [pc |-> "generate_cypher", user_question |-> user_question,
                          started_with |-> started,
                          state |-> started,
                          received |-> <<>>, exc |-> "", answered |-> <<>>,
                          result |-> NoResult]]
    /\ UNCHANGED callerVars
    /\ UNCHANGED componentVars

\* caller t, who is not inside a call: process_question, up to the call of
\* self.workflow.invoke
thread_process_question(t, user_question) ==
    /\ threads[t].pc \in {"idle", "done"}
    /\ threads' = [threads EXCEPT ![t] =
                      [pc |-> "generate_cypher", user_question |-> user_question,
                       started_with |-> initial_state(user_question),
                       state |-> initial_state(user_question),
                       received |-> <<>>, exc |-> "", answered |-> <<>>,
                       result |-> NoResult]]
    /\ UNCHANGED callerVars
    /\ UNCHANGED componentVars

\* caller t: the node that is due in its run, followed by the node's edge
thread_node(t, node, response) ==
    /\ threads[t].pc = node
    /\ Len(threads[t].received) < RecursionLimit
    /\ \E new \in {apply_node(node, threads[t].state, response)} :
           threads' = [threads EXCEPT
                         ![t].state = new,
                         ![t].pc = next_node(node, new),
                         ![t].received = Append(threads[t].received, response)]
    /\ UNCHANGED callerVars
    /\ UNCHANGED componentVars

thread_generate_cypher(t, llm) == thread_node(t, "generate_cypher", llm)

thread_execute_cypher(t, drv) ==
    thread_node(t, "execute_cypher",
                IF threads[t].state.cypher_query = <<>> THEN NoStoreCall ELSE drv)

thread_correct_cypher(t, llm) == thread_node(t, "correct_cypher", llm)

\* a caller whose call has returned holds the returned dict; the state of the
\* run was local to the call.  answered is the response the answer call of
\* the run was given, if the run came to it
returned(thread, answered, dict) ==
    [IdleThread EXCEPT !.pc = "done",
                       !.user_question = thread.user_question,
                       !.started_with = thread.started_with,
                       !.answered = answered,
                       !.result = dict]

\* caller t: generate_answer, the last node of a run; its edge leads to END,
\* self.workflow.invoke returns the final state and the try branch of
\* process_question returns the dict made of it
thread_generate_answer(t, llm) ==
    /\ threads[t].pc = "generate_answer"
    /\ Len(threads[t].received) < RecursionLimit
    /\ \E final_state \in {apply_node("generate_answer", threads[t].state, llm)} :
          /\ next_node("generate_answer", final_state) = "END"
          /\ threads' = [threads EXCEPT
                 ![t] = returned(threads[t], <<llm>>,
                                 question_result(threads[t].user_question,
                                                 final_state))]
    /\ UNCHANGED callerVars
    /\ UNCHANGED componentVars

\* caller t: the workflow engine stops the run after RecursionLimit nodes
thread_workflow_recursion_error(t) ==
    /\ threads[t].pc \in Nodes
    /\ Len(threads[t].received) >= RecursionLimit
    /\ threads' = [threads EXCEPT ![t].exc = "GraphRecursionError",
                                  ![t].pc = "RAISED"]
    /\ UNCHANGED callerVars
    /\ UNCHANGED componentVars

\* the dict process_question returns from its except branch
question_failure(user_question, error) ==
    [NoResult EXCEPT
       !.keys = {"success", "question", "error", "final_answer"},
       !.success = FALSE,
       !.question = user_question,
       !.error = error,
       !.final_answer = system_error_answer]

\* caller t: the except branch of process_question
thread_process_question_except(t) ==
    /\ threads[t].pc = "RAISED"
    /\ threads' = [threads EXCEPT
                      ![t] = returned(threads[t], <<>>,
                                      question_failure(threads[t].user_question,
                                                       threads[t].exc))]
    /\ UNCHANGED callerVars
    /\ UNCHANGED componentVars

ConcurrentNext ==
    \/ \E t \in Threads : thread_process_question(t, CallerQuestions[t])
    \/ \E t \in Threads, llm \in ThreadLLMOutcomes : thread_generate_cypher(t, llm)
    \/ \E t \in Threads, drv \in ThreadDriverOutcomes : thread_execute_cypher(t, drv)
    \/ \E t \in Threads, llm \in ThreadLLMOutcomes : thread_correct_cypher(t, llm)
    \/ \E t \in Threads, llm \in ThreadLLMOutcomes : thread_generate_answer(t, llm)
    \/ \E t \in Threads : thread_workflow_recursion_error(t)
    \/ \E t \in Threads : thread_process_question_except(t)

ConcurrentSpec == Init /\ [][ConcurrentNext]_vars

----------------------------------------------------------------------------
(* The web server process: src/src/ui/fastapi_server.py and               *)
(* src/src/main_service.py.  Every endpoint is an "async def" without an   *)
(* await, so a handler runs from start to end before the next one starts.  *)

\* KBFortressMainService.__init__ builds these, in this order
ServiceComponents == <<"unified_agent", "multihop_analyzer",
                       "notification_service", "relationship_manager">>

\* how a construction goes: the components whose constructor meets a
\* failure (Neo4jManager() failing its connection test, os.makedirs raising)
ConstructionOutcomes == SUBSET {"unified_agent", "multihop_analyzer",
                                "notification_service", "relationship_manager"}

\* the components that let the failure out of their constructor;
\* UltimateMultihopAnalyzer catches the exception of its Neo4jManager() and
\* goes on with neo4j_manager = None
RaisingComponents == {"unified_agent", "notification_service",
                      "relationship_manager"}

\* the endpoints that call get_kb_service()
Endpoints == {"register_company", "query_company", "simulate_risk",
              "system_status", "get_analysis_details",
              "company_report_history", "mark_alert_read"}

\* KBFortressMainService.__init__: the components are built in order up to
\* the first one that raises; a built component whose connection did not
\* fail has opened it
main_service_init(failing) ==
    LET n == Len(ServiceComponents)
        stops == { j \in 1..n : ServiceComponents[j] \in failing
                                   /\ ServiceComponents[j] \in RaisingComponents }
        built == { i \in 1..n : \A j \in stops : i < j }
    IN [raised |-> stops # {},
        connected |-> ({ ServiceComponents[i] : i \in built }
                         \cap ConnectingComponents) \ failing]

\* get_kb_service: "if kb_service is None: kb_service = KBFortressMainService()"
get_kb_service(srv, failing) ==
    IF srv.kb_service = "None"
    THEN LET made == main_service_init(failing)
         IN [raised |-> made.raised,
             server |-> [srv EXCEPT
                 !.kb_service = IF made.raised THEN "None"
                                ELSE "KBFortressMainService",
                 !.opened = [c \in ConnectingComponents |->
                                IF c \in made.connected THEN srv.opened[c] + 1
                                ELSE srv.opened[c]]]]
    ELSE [raised |-> FALSE, server |-> srv]

\* one request to an endpoint: "service = get_kb_service()" inside the
\* handler's try, then the call on the service; the handler's except turns
\* any exception into an error response
api_request(endpoint, failing) ==
    /\ ~server.shutdown
    /\ Len(server.log) < MaxRequests
    /\ server.kb_service # "None" => failing = {}
    /\ LET got == get_kb_service(server, failing)
       IN server' = [got.server EXCEPT
                        !.log = Append(@, [endpoint |-> endpoint,
                                           served |-> ~got.raised])]
    /\ UNCHANGED <<callerVars, threads, retry, batch, company>>

\* shutdown_event: kb_service.cleanup() closes the connections of the
\* unified agent and of the relationship manager
shutdown_event ==
    /\ ~server.shutdown
    /\ server' = [server EXCEPT
                     !.shutdown = TRUE,
                     !.closed = IF server.kb_service # "None"
                                THEN {"unified_agent", "relationship_manager"}
                                ELSE {}]
    /\ UNCHANGED <<callerVars, threads, retry, batch, company>>

ServerNext ==
    \/ \E endpoint \in Endpoints, failing \in ConstructionOutcomes :
           api_request(endpoint, failing)
    \/ shutdown_event

ServerSpec == Init /\ [][ServerNext]_vars

----------------------------------------------------------------------------
(* LLMGraphTransformer: src/src/graph/llm_graph_transformer.py             *)
(*                                                                         *)
(* An LLM response is the call raising, or a JSON document wrapped in a    *)
(* code fence or not.  A document is given by what json.loads makes of it. *)

\* no fence, 3BT json ... 3BT, 3BT ... 3BT
Fences == {"none", "json", "plain"}
DocumentKinds == {"graph", "bad_node", "bad_relationship", "no_relationships",
                  "not_json"}

GraphResponses ==
    {[raised |-> TRUE, fence |-> "none", kind |-> "not_json"]}
    \cup [raised : {FALSE}, fence : Fences, kind : DocumentKinds]

GraphNode(b) == [type |-> "ReferenceCompany", id |-> b,
                 properties |-> "properties"]
GraphRelationship(b) == [type |-> "IS_EXPOSED_TO", source_id |-> b,
                         target_id |-> b]

\* the value json.loads returns for a document extracted from the data b
Document(kind, b) ==
    CASE kind = "graph" ->
             [nodes |-> <<GraphNode(b)>>,
              relationships |-> <<GraphRelationship(b)>>]
      [] kind = "bad_node" ->
             [nodes |-> <<[id |-> b]>>, relationships |-> <<>>]
      [] kind = "bad_relationship" ->
             [nodes |-> <<GraphNode(b)>>,
              relationships |-> <<[type |-> "IS_EXPOSED_TO"]>>]
      [] kind = "no_relationships" ->
             [nodes |-> <<GraphNode(b)>>]
      [] kind = "not_json" ->
             [text |-> "not json"]

\* what is left around the document after "if content.startswith('3BTjson'):
\* content = content[7:]" and "if content.endswith('3BT'): content =
\* content[:-3]"
strip_code_block(fence) ==
    LET opening == CASE fence = "json" -> <<"3BTjson">>
                     [] fence = "plain" -> <<"3BT">>
                     [] fence = "none" -> <<>>
        closing == IF fence = "none" THEN <<>> ELSE <<"3BT">>
    IN (IF opening = <<"3BTjson">> THEN <<>> ELSE opening)
       \o (IF closing = <<"3BT">> THEN <<>> ELSE closing)

\* extract_graph_elements: llm.invoke, the fence removal, json.loads and the
\* print of len(extracted_graph['nodes']) and len(...['relationships']) are
\* all inside one try whose except returns the empty graph
extract_graph_elements(response, b) ==
    IF response.raised THEN EmptyGraph
    ELSE IF strip_code_block(response.fence) # <<>> THEN EmptyGraph
    ELSE IF response.kind = "not_json" THEN EmptyGraph
    ELSE IF ~({"nodes", "relationships"} \subseteq DOMAIN Document(response.kind, b))
         THEN EmptyGraph
    ELSE Document(response.kind, b)

\* create_nodes_in_neo4j: node["type"], node["id"], node["properties"] are
\* read outside the try of the loop body
NodeKeys == {"type", "id", "properties"}
create_nodes_in_neo4j(nodes) ==
    [raised |-> \E i \in 1..Len(nodes) : ~(NodeKeys \subseteq DOMAIN nodes[i])]

\* create_relationships_in_neo4j: rel["type"], rel["source_id"],
\* rel["target_id"] are read outside the try of the loop body
RelationshipKeys == {"type", "source_id", "target_id"}
create_relationships_in_neo4j(relationships) ==
    [raised |-> \E i \in 1..Len(relationships) :
                    ~(RelationshipKeys \subseteq DOMAIN relationships[i])]

----------------------------------------------------------------------------
(* CompleteGraphBuilder: src/scripts/complete_graph_build.py *)

\* complete_build names its batches after the data they hold
RetryBatchNames == {"policies", "news"}

\* process_batch_with_retry, up to the first pass of its loop
process_batch_with_retry(batch_name, max_retries) ==
    /\ retry.pc \in {"idle", "returned"}
    /\ retry' = [IdleRetry EXCEPT !.pc = "attempt",
                                  !.batch_name = batch_name,
                                  !.max_retries = max_retries]
    /\ UNCHANGED <<callerVars, threads, server, batch, company>>

\* one pass of "for attempt in range(max_retries)" whose last failure lets
\* the exception escape to complete_build
process_batch_attempt_reraise(response) ==
    /\ retry.pc = "attempt"
    /\ LET extraction == extract_graph_elements(response, retry.batch_name)
           has_nodes == "nodes" \in DOMAIN extraction
           raised ==
               /\ has_nodes
               /\ \/ /\ extraction.nodes # <<>>
                     /\ create_nodes_in_neo4j(extraction.nodes).raised
                  \/ /\ "relationships" \in DOMAIN extraction
                     /\ extraction.relationships # <<>>
                     /\ create_relationships_in_neo4j(extraction.relationships).raised
           called == [retry EXCEPT !.extract_calls = @ + 1,
                                   !.responses = Append(@, response)]
       IN retry' =
              IF ~raised
              THEN [called EXCEPT !.pc = "returned",
                                  !.outcomes = Append(@, "returned"),
                                  !.result = IF has_nodes THEN extraction
                                             ELSE EmptyGraph]
              ELSE IF retry.attempt < retry.max_retries - 1
              THEN [called EXCEPT !.attempt = @ + 1,
                                  !.outcomes = Append(@, "raised")]
              ELSE [called EXCEPT !.pc = "returned",
                                  !.outcomes = Append(@, "raised"),
                                  !.propagated = TRUE]
    /\ UNCHANGED <<callerVars, threads, server, batch, company>>

\* one pass of "for attempt in range(max_retries)": the extraction, the two
\* store writes and the return are inside the try; the except sleeps and goes
\* on to the next pass, or returns the empty graph after the last pass
process_batch_attempt(response) ==
    /\ retry.pc = "attempt"
    /\ LET extraction == extract_graph_elements(response, retry.batch_name)
           has_nodes == "nodes" \in DOMAIN extraction
           raised ==
               /\ has_nodes
               /\ \/ /\ extraction.nodes # <<>>
                     /\ create_nodes_in_neo4j(extraction.nodes).raised
                  \/ /\ "relationships" \in DOMAIN extraction
                     /\ extraction.relationships # <<>>
                     /\ create_relationships_in_neo4j(extraction.relationships).raised
           called == [retry EXCEPT !.extract_calls = @ + 1,
                                   !.responses = Append(@, response)]
       IN retry' =
              IF ~raised
              THEN [called EXCEPT !.pc = "returned",
                                  !.outcomes = Append(@, "returned"),
                                  !.result = IF has_nodes THEN extraction
                                             ELSE EmptyGraph]
              ELSE IF retry.attempt < retry.max_retries - 1
              THEN [called EXCEPT !.attempt = @ + 1,
                                  !.outcomes = Append(@, "raised")]
              ELSE [called EXCEPT !.pc = "returned",
                                  !.outcomes = Append(@, "raised"),
                                  !.result = EmptyGraph]
    /\ UNCHANGED <<callerVars, threads, server, batch, company>>

RetryNext ==
    \/ \E batch_name \in RetryBatchNames, max_retries \in 1..DefaultMaxRetries :
           process_batch_with_retry(batch_name, max_retries)
    \/ \E response \in GraphResponses : process_batch_attempt(response)

RetrySpec == Init /\ [][RetryNext]_vars

----------------------------------------------------------------------------
(* BatchGraphBuilder: src/src/graph/batch_graph_builder.py *)

\* _create_batches: "return [batch1, batch2, batch3, batch4, batch5]"
BatchNames == <<"batch1", "batch2", "batch3", "batch4", "batch5">>

\* build_complete_graph, up to the first pass of its loop
build_complete_graph ==
    /\ batch.pc = "idle"
    /\ batch' = [IdleBatch EXCEPT !.pc = "loop"]
    /\ UNCHANGED <<callerVars, threads, server, retry, company>>

\* one pass of the loop that ends the loop when the extraction is empty
build_batch_stop_on_empty(response) ==
    /\ batch.pc = "loop"
    /\ LET i == Len(batch.attempted) + 1
           extracted == extract_graph_elements(response, BatchNames[i])
           has_nodes == "nodes" \in DOMAIN extracted
       IN batch' = [batch EXCEPT
              !.attempted = Append(@, BatchNames[i]),
              !.responses = Append(@, response),
              !.all_nodes = IF has_nodes THEN @ \o extracted.nodes ELSE @,
              !.all_relationships =
                  IF has_nodes /\ "relationships" \in DOMAIN extracted
                  THEN @ \o extracted.relationships ELSE @,
              !.pc = IF i = Len(BatchNames) \/ extracted = EmptyGraph
                     THEN "create_all" ELSE "loop"]
    /\ UNCHANGED <<callerVars, threads, server, retry, company>>

\* one pass of "for i, batch_data in enumerate(batches, 1)": the extraction
\* and the two extend calls are inside the try, the except goes on to the
\* next batch
build_batch(response) ==
    /\ batch.pc = "loop"
    /\ LET i == Len(batch.attempted) + 1
           extracted == extract_graph_elements(response, BatchNames[i])
           has_nodes == "nodes" \in DOMAIN extracted
       IN batch' = [batch EXCEPT
              !.attempted = Append(@, BatchNames[i]),
              !.responses = Append(@, response),
              !.all_nodes = IF has_nodes THEN @ \o extracted.nodes ELSE @,
              !.all_relationships =
                  IF has_nodes /\ "relationships" \in DOMAIN extracted
                  THEN @ \o extracted.relationships ELSE @,
              !.pc = IF i = Len(BatchNames) THEN "create_all" ELSE "loop"]
    /\ UNCHANGED <<callerVars, threads, server, retry, company>>

\* the rest of build_complete_graph: _create_all_in_neo4j catches the
\* exception of a store write and goes on with offline statistics
build_create_all ==
    /\ batch.pc = "create_all"
    /\ batch' = [batch EXCEPT
           !.pc = "done",
           !.offline = \/ create_nodes_in_neo4j(batch.all_nodes).raised
                       \/ create_relationships_in_neo4j(
                              batch.all_relationships).raised]
    /\ UNCHANGED <<callerVars, threads, server, retry, company>>

BatchNext ==
    \/ build_complete_graph
    \/ \E response \in GraphResponses : build_batch(response)
    \/ build_create_all

BatchSpec == Init /\ [][BatchNext]_vars

----------------------------------------------------------------------------
(* DynamicUserCompanyManager: src/src/agents/dynamic_user_company.py *)

\* the fields of the dataclasses CompanyInfo and CypherQuery
CompanyInfoFields == {"company_name", "industry", "location", "revenue",
                      "employees", "debt"}
CypherQueryFields == {"query", "parameters"}

\* the name extract_company_info falls back to (Korean in the source)
default_company_name == "test company"

\* user inputs: the value after the company-name label, "" when the input
\* has no such label
CompanyInputs == {"", "hankook", "daehan"}

\* TextToCypherEngine.extract_company_info: the regex match or the default
company_name_of(user_input) ==
    IF user_input = "" THEN default_company_name ELSE user_input

\* _check_existing_user_company: execute_query returns [] when the driver
\* fails, so a failed check reads as "does not exist"
check_existing_user_company(store, company_name, driver_ok) ==
    driver_ok /\ company_name \in store

\* _execute_cypher_query for the CREATE query: execute_query runs the query
\* (and returns [] when the driver fails); the dict built next reads
\* cypher_query.query_type and cypher_query.description, and so does the
\* dict of the except branch
execute_creation_query(store, company_name, driver_ok) ==
    LET written == IF driver_ok THEN store \cup {company_name} ELSE store
    IN IF {"query_type", "description"} \subseteq CypherQueryFields
       THEN [raised |-> FALSE, store |-> written, success |-> TRUE,
             results |-> IF driver_ok THEN <<company_name>> ELSE <<>>]
       ELSE [raised |-> TRUE, store |-> written, success |-> FALSE,
             results |-> <<>>]

\* the names the inputs give
CompanyNames == { company_name_of(u) : u \in CompanyInputs }

\* the calls made so far, returned or in flight
company_calls ==
    Len(company.log)
    + Cardinality({ m \in Managers : company.managers[m].pc # "idle" })

\* create_user_company_from_input of manager m, from the call to the end of
\* the existence check: the first round trip to the store.  An existing name
\* ends the call with success = False
create_user_company_from_input(m, user_input, check_ok) ==
    /\ company.managers[m].pc = "idle"
    /\ company_calls < MaxCompanyCalls
    /\ LET company_name == company_name_of(user_input)
           exists == check_existing_user_company(company.store, company_name,
                                                 check_ok)
           call == [manager |-> m, op |-> "create",
                    company_name |-> company_name,
                    existed |-> company_name \in company.store,
                    create_executed |-> FALSE,
                    created |-> FALSE,
                    success |-> FALSE]
       IN company' =
              IF exists
              THEN [company EXCEPT !.log = Append(@, call)]
              ELSE [company EXCEPT
                      !.managers[m] = [pc |-> "create",
                                       user_input |-> user_input,
                                       company_name |-> company_name,
                                       existed |-> company_name \in company.store]]
    /\ UNCHANGED <<callerVars, threads, server, retry, batch>>

\* create_user_company_from_input of manager m, from the CREATE query to the
\* CreationResult: the second round trip to the store
create_user_company_node(m, create_ok) ==
    /\ company.managers[m].pc = "create"
    /\ LET company_name == company.managers[m].company_name
           node_result == execute_creation_query(company.store, company_name,
                                                 create_ok)
           \* the success result reads company_info.confidence_score
           success == /\ ~node_result.raised
                      /\ node_result.success
                      /\ "confidence_score" \in CompanyInfoFields
           call == [manager |-> m, op |-> "create",
                    company_name |-> company_name,
                    existed |-> company.managers[m].existed,
                    create_executed |-> TRUE,
                    created |-> create_ok,
                    success |-> success]
       IN company' = [store |-> node_result.store,
                      log |-> Append(company.log, call),
                      managers |-> [company.managers EXCEPT ![m] = IdleManager]]
    /\ UNCHANGED <<callerVars, threads, server, retry, batch>>

\* delete_user_company of manager m: MATCH ... DETACH DELETE u RETURN count(u);
\* True when the store deleted a node
delete_user_company(m, company_name, driver_ok) ==
    /\ company.managers[m].pc = "idle"
    /\ company_calls < MaxCompanyCalls
    /\ company' =
           [company EXCEPT
              !.store = IF driver_ok THEN @ \ {company_name} ELSE @,
              !.log = Append(@, [manager |-> m, op |-> "delete",
                                 company_name |-> company_name,
                                 existed |-> company_name \in company.store,
                                 create_executed |-> FALSE,
                                 created |-> FALSE,
                                 success |-> driver_ok
                                             /\ company_name \in company.store])]
    /\ UNCHANGED <<callerVars, threads, server, retry, batch>>

CompanyNext ==
    \/ \E m \in Managers, user_input \in CompanyInputs, check_ok \in BOOLEAN :
           create_user_company_from_input(m, user_input, check_ok)
    \/ \E m \in Managers, create_ok \in BOOLEAN :
           create_user_company_node(m, create_ok)
    \/ \E m \in Managers, company_name \in CompanyNames, driver_ok \in BOOLEAN :
           delete_user_company(m, company_name, driver_ok)

CompanySpec == Init /\ [][CompanyNext]_vars

----------------------------------------------------------------------------
(* Properties of KBTextToCypherAgent *)

Count(seq, x) == Cardinality({ i \in 1..Len(seq) : seq[i] = x })
TextRunDone == agent = "text" /\ pc = "done"
Answered == trace # <<>> /\ Last(trace) = "generate_answer"
CorrectorCalls == { i \in 1..Len(llmLog) : llmLog[i].node = "correct_cypher" }
GenerationFailed ==
    llmLog # <<>> /\ llmLog[1].node = "generate_cypher" /\ llmLog[1].raised

\* C1: in every run execute_cypher is entered at most max_attempts + 1 = 3
\* times and correct_cypher at most 2 times, and the run then reaches
\* generate_answer.
C1_BoundedRetries ==
    /\ Count(trace, "execute_cypher") <= MaxAttempts + 1
    /\ Count(trace, "correct_cypher") <= MaxAttempts
    /\ (TextRunDone => Answered)

AllExecutionsFailed ==
    /\ execLog # <<>>
    /\ \A i \in 1..Len(execLog) : execLog[i].driver = "raised"

\* C2: a finished run in which every execution ended in an error of the
\* store entered execute_cypher exactly 3 times and then went to
\* generate_answer with the error as its context (the last element of
\* db_outputs is the error text).
C2_AlwaysFailingStore ==
    (TextRunDone /\ AllExecutionsFailed) =>
        /\ Count(trace, "execute_cypher") = MaxAttempts + 1
        /\ Answered
        /\ db_outputs # <<>>
        /\ Last(db_outputs) = StrValue(Last(execLog).driver_error)

\* C3: an execution that returned without error, zero rows included, is
\* followed by generate_answer and never by correct_cypher.
C3_SuccessShortCircuit ==
    \A i \in 1..Len(execLog) :
        execLog[i].driver \in {"rows", "empty"} =>
            execLog[i].next = "generate_answer"

\* C4: the final_answer of the returned result is a non-empty string in
\* every terminal situation.
C4_NonEmptyAnswer ==
    TextRunDone => result.final_answer # <<>>

Exhausted ==
    /\ execLog # <<>>
    /\ Last(execLog).driver = "raised"
    /\ Last(execLog).attempts >= MaxAttempts
    /\ Last(execLog).next = "generate_answer"

EveryStageFailed ==
    /\ \A i \in 1..Len(llmLog) : llmLog[i].raised
    /\ \A i \in 1..Len(execLog) : execLog[i].sent => execLog[i].driver = "raised"

\* C5: a run that ends exhausted, or in which every stage failed, returns a
\* well-formed result whose success flag is false.
C5_FailureReported ==
    (TextRunDone /\ (Exhausted \/ EveryStageFailed)) =>
        /\ {"success", "final_answer"} \subseteq result.keys
        /\ result.success = FALSE

\* C7: when the initial generate_cypher LLM call failed, the empty query is
\* not sent to the store, correct_cypher is not invoked and no correction
\* attempt is consumed.
C7_GenerationFailureSkipsCorrection ==
    GenerationFailed =>
        /\ \A i \in 1..Len(execLog) : ~(execLog[i].sent /\ execLog[i].query = <<>>)
        /\ Count(trace, "correct_cypher") = 0
        /\ correction_attempts = 0

\* C8: a correct_cypher whose LLM call fails does not raise: it returns the
\* fixed fallback query, increments correction_attempts by 1 and hands over
\* to execute_cypher; a finished run in which every corrector call failed
\* has reached generate_answer and returned its answer.
C8_CorrectorFallbackStep ==
    (pc = "correct_cypher" /\ llmLog' # llmLog /\ Last(llmLog').raised) =>
        /\ cypher_query' = fallback_query
        /\ correction_attempts' = correction_attempts + 1
        /\ pc' = "execute_cypher"
        /\ exc' = ""

EveryCorrectorCallFailed ==
    /\ CorrectorCalls # {}
    /\ \A i \in CorrectorCalls : llmLog[i].raised

C8_CorrectorFallbackRun ==
    (TextRunDone /\ EveryCorrectorCallFailed) =>
        /\ Answered
        /\ exc = ""
        /\ Count(trace, "correct_cypher") <= MaxAttempts

C8_CorrectorFallback ==
    [][C8_CorrectorFallbackStep]_vars /\ []C8_CorrectorFallbackRun

C8_Witness ==
    /\ TextRunDone /\ EveryCorrectorCallFailed /\ Answered
    /\ Count(trace, "correct_cypher") = MaxAttempts
    /\ cypher_query = fallback_query

\* C9: whenever the store failed to run a query, error_history holds, after
\* that execution, an entry with that query and the store's error message,
\* and the run goes to correct_cypher if corrections remain.
C9_StoreErrorRecorded ==
    \A i \in 1..Len(execLog) :
        execLog[i].driver = "raised" =>
            /\ \E k \in 1..Len(execLog[i].history) :
                  /\ execLog[i].history[k].stage = "execute"
                  /\ execLog[i].history[k].query = execLog[i].query
                  /\ execLog[i].history[k].error = execLog[i].driver_error
            /\ (execLog[i].attempts < MaxAttempts =>
                   execLog[i].next = "correct_cypher")

\* C10: an execution that ran with zero rows and an execution the store
\* rejected never hand the same value to the retry controller.
C10_EmptyDistinctFromError ==
    \A i, j \in 1..Len(execLog) :
        (execLog[i].driver = "empty" /\ execLog[j].driver = "raised") =>
            execLog[i].outputs # execLog[j].outputs

----------------------------------------------------------------------------
(* Properties of the two entry points *)

\* C6: no exception crosses process_question or process_request: when the
\* workflow has raised or returned, the entry point goes on to return a
\* result; every finished call has returned a result with a success flag
\* and a text; and an exception that escaped the workflow has become a
\* result with success = false and the fixed apologetic text.
C6_NoExceptionEscapes ==
    /\ pc = "RAISED" => ENABLED (process_question_except \/ process_request_except)
    /\ pc = "END" => ENABLED (process_question_return \/ process_request_return)
    /\ (agent = "text" /\ pc = "done") =>
          /\ {"success", "final_answer"} \subseteq result.keys
          /\ (exc = "") = result.success
          /\ exc # "" => result.final_answer = system_error_answer
    /\ (agent = "unified" /\ pc = "done") =>
          /\ {"success", "final_report"} \subseteq result.keys
          /\ (exc = "") = result.success
          /\ exc # "" => result.final_report = request_error_text

C6_Witness ==
    /\ agent = "unified" /\ pc = "done" /\ calls = MaxCalls
    /\ exc = "TypeError"
    /\ result.success = FALSE
    /\ result.final_report = request_error_text

----------------------------------------------------------------------------
(* Properties of the run state of KBTextToCypherAgent *)

IsPrefix(a, b) == Len(a) <= Len(b) /\ SubSeq(b, 1, Len(a)) = a
\* a step of the workflow of the text agent: one node has run
TextNodeStep == agent = "text" /\ pc \in Nodes /\ step' = step + 1

\* C11: within one run error_history is append-only: after every node the
\* previous error_history is a prefix of the new one.
C11_AppendOnly ==
    [][TextNodeStep => IsPrefix(error_history, error_history')]_vars

\* C12: the history handed to the corrector prompt is the last min(3, n)
\* entries of the n errors the run has recorded, in the order in which they
\* occurred.
C12_CorrectorHistoryWindow ==
    [][(TextNodeStep /\ pc = "correct_cypher") =>
          Last(llmLog').history = LastN(errors_recorded, HistoryWindow)]_vars

\* C13: correction_attempts never decreases during a run, and at the k-th
\* entry into execute_cypher it equals k - 1.
C13_AttemptsStep ==
    (agent = "text" /\ agent' = "text" /\ calls' = calls) =>
        correction_attempts' >= correction_attempts

C13_AttemptsAtEntry ==
    agent = "text" =>
        \A k \in 1..Len(execLog) : execLog[k].attempts = k - 1

C13_MonotonicAttempts ==
    [][C13_AttemptsStep]_vars /\ []C13_AttemptsAtEntry

C13_Witness ==
    /\ agent = "text"
    /\ Len(execLog) = MaxAttempts + 2
    /\ Last(execLog).attempts = MaxAttempts + 1
    /\ correction_attempts = MaxAttempts + 1

\* the scenario's mocks: the first query is generated and fails at the
\* store, every corrector call returns a query, and every later execution
\* returns one row
C14_Scenario ==
    /\ TextRunDone
    /\ llmLog # <<>> /\ ~llmLog[1].raised
    /\ execLog # <<>> /\ execLog[1].sent /\ execLog[1].driver = "raised"
    /\ \A i \in CorrectorCalls : ~llmLog[i].raised
    /\ \A i \in 2..Len(execLog) :
          /\ execLog[i].sent
          /\ execLog[i].driver = "rows"
          /\ Len(execLog[i].outputs[1].rows) = 1

\* C14: in the scenario the run makes two executions (attempts_used = 2:
\* the first query and one corrected query, correction_attempts = 1) and
\* the result reports success.
C14_CorrectedOnce ==
    C14_Scenario =>
        /\ Len(execLog) = 2
        /\ Count(trace, "correct_cypher") = 1
        /\ Answered
        /\ result.success = TRUE
        /\ result.correction_attempts + 1 = 2

C14_Witness ==
    /\ C14_Scenario
    /\ Len(execLog) = 2
    /\ result.success = TRUE
    /\ result.correction_attempts = 1
    /\ result.db_results = <<ListValue(<<"row">>)>>

\* C15: generate_answer runs at most once per run and is then the last node
\* of the run, and the finished call has returned one result that carries a
\* final_answer: the answer of generate_answer when the workflow returned.
C15_OneTerminalAnswer ==
    agent = "text" =>
        /\ Count(trace, "generate_answer") <= 1
        /\ Count(trace, "generate_answer") = 1 =>
              /\ Last(trace) = "generate_answer"
              /\ pc \in {"END", "done"}
        /\ pc = "done" =>
              /\ "final_answer" \in result.keys
              /\ exc = "" => (Answered /\ result.final_answer = final_answer)

C15_Witness ==
    /\ TextRunDone /\ Answered
    /\ Count(trace, "correct_cypher") = MaxAttempts
    /\ final_answer # <<>>
    /\ result.final_answer = final_answer

\* C16: generate_cypher runs exactly once and first; every correct_cypher
\* is immediately preceded by an execute_cypher and immediately followed by
\* one (which is due when correct_cypher is the last node so far);
\* generate_answer comes right after an execute_cypher and nothing follows.
C16_ProgramOrder ==
    (agent = "text" /\ trace # <<>>) =>
        /\ trace[1] = "generate_cypher"
        /\ Count(trace, "generate_cypher") = 1
        /\ \A i \in 1..Len(trace) :
              trace[i] = "correct_cypher" =>
                  /\ i > 1 /\ trace[i - 1] = "execute_cypher"
                  /\ IF i < Len(trace) THEN trace[i + 1] = "execute_cypher"
                     ELSE pc = "execute_cypher"
        /\ \A i \in 1..Len(trace) :
              trace[i] = "generate_answer" =>
                  /\ i = Len(trace)
                  /\ i > 1 /\ trace[i - 1] = "execute_cypher"

\* the error the execution produced: the rejection of the empty query, or
\* the error of the store ("" when the store raised none)
ExecutionError(x) == IF x.sent THEN x.driver_error ELSE "empty query"

\* C18: the error message given to correct_cypher is the one produced by
\* the execution that immediately preceded it, and the failed query given
\* to it is the query of that execution.
C18_CorrectorSeesLatestError ==
    [][(TextNodeStep /\ pc = "correct_cypher") =>
          /\ Last(llmLog').error_message = ExecutionError(Last(execLog))
          /\ Last(llmLog').failed_query = Last(execLog).query]_vars

\* C19: the question text passed to correct_cypher and to generate_answer
\* is the user question given to process_question.
C19_RequestImmutable ==
    agent = "text" =>
        \A i \in 1..Len(llmLog) :
            llmLog[i].node \in {"correct_cypher", "generate_answer"} =>
                llmLog[i].question = request_text

C19_Witness ==
    /\ TextRunDone /\ Answered
    /\ Count(trace, "correct_cypher") = MaxAttempts
    /\ Len(messages) = MaxAttempts + 3
    /\ Last(llmLog).question = request_text
    /\ request_text \in Questions

----------------------------------------------------------------------------
(* Properties of the query flow of KBFortressUnifiedAgent *)

\* the states route_correction is called with: a row list, the empty list,
\* or a list holding an error message
RouteStates ==
    { [InitialFortressState(<<>>) EXCEPT !.db_results = r,
                                         !.correction_attempts = a] :
        r \in RowLists \cup { <<"unknown label">> }, a \in 0..(MaxAttempts + 1) }

\* C20: a successfully executed query, zero rows included, routes to
\* find_solutions and never to correct_cypher; route_correction answers
\* "correct" only for an error message with correction_attempts < 2.
C20_UnifiedSuccessContinues ==
    /\ agent = "unified" =>
          \A i \in 1..Len(execLog) :
              /\ execLog[i].driver \in {"rows", "empty"} =>
                    execLog[i].next = "find_solutions"
              /\ execLog[i].next = "correct_cypher" =>
                    /\ execLog[i].outputs # <<>> /\ IsStr(execLog[i].outputs[1])
                    /\ execLog[i].attempts < MaxAttempts
    /\ \A st \in RouteStates :
          unified_route_correction(st) = "correct" <=>
              /\ st.db_results # <<>> /\ IsStr(st.db_results[1])
              /\ st.correction_attempts < MaxAttempts

C20_Witness ==
    /\ agent = "unified" /\ pc = "done"
    /\ execLog # <<>>
    /\ Last(execLog).driver = "empty"
    /\ Last(execLog).outputs = <<>>
    /\ Last(execLog).next = "find_solutions"
    /\ Count(trace, "correct_cypher") = 0

----------------------------------------------------------------------------
(* Properties of concurrent runs *)

\* the responses a node can be given
NodeResponses(node, state) ==
    IF node = "execute_cypher"
    THEN IF state.cypher_query = <<>> THEN {NoStoreCall}
         ELSE ThreadDriverOutcomes
    ELSE ThreadLLMOutcomes

\* the calls a caller can make alone from a node on: the responses the run
\* is given, in order, and the dict the call returns
RECURSIVE CallsAloneFrom(_, _, _, _)
CallsAloneFrom(user_question, state, node, received) ==
    IF node = "END"
    THEN {[received |-> received,
           result |-> question_result(user_question, state)]}
    ELSE IF Len(received) >= RecursionLimit
    THEN {[received |-> received,
           result |-> question_failure(user_question, "GraphRecursionError")]}
    ELSE UNION { CallsAloneFrom(user_question, given[2], next_node(node, given[2]),
                                Append(received, given[1])) :
                   given \in { <<r, apply_node(node, state, r)>> :
                                  r \in NodeResponses(node, state) } }

\* every call a caller can make alone
CallsAlone ==
    UNION { CallsAloneFrom(CallerQuestions[t],
                           initial_state(CallerQuestions[t]),
                           "generate_cypher", <<>>) : t \in Threads }

\* a run starts from the question of its caller and from nothing that an
\* earlier or a concurrent run left
C17_StartsClean ==
    \A t \in Threads :
        threads[t].pc # "idle" =>
            /\ threads[t].started_with.error_history = <<>>
            /\ threads[t].started_with.correction_attempts = 0
            /\ threads[t].started_with.db_outputs = <<>>
            /\ threads[t].started_with = initial_state(CallerQuestions[t])

\* a step of caller t leaves the runs and results of the other callers as
\* they are, and the dict a call returns is the one the caller gets alone
\* for its question and the responses its run was given
C17_RunStep ==
    \A t \in Threads :
        threads'[t] # threads[t] =>
            /\ \A u \in Threads \ {t} : threads'[u] = threads[u]
            /\ (threads[t].pc # "done" /\ threads'[t].pc = "done") =>
                  /\ threads'[t].result.question = CallerQuestions[t]
                  /\ [received |-> threads[t].received \o threads'[t].answered,
                      result |-> threads'[t].result] \in CallsAlone

\* C17: for every sequence and interleaving of the calls of the callers,
\* each run starts with an empty error_history, correction_attempts = 0 and
\* empty db_outputs, no step of a run changes another run, and the result of
\* a call is the one the caller gets alone: it depends on the caller's
\* question and on the LLM and store responses given to its run only.
C17_RunsIsolated == [][C17_RunStep]_vars /\ []C17_StartsClean

\* one run, whose third correction call was made for an empty query and
\* raised, has executed the fallback query and is about to answer, while the
\* run of the other caller, for which the store found nothing, is before its
\* first correction
C17_Witness ==
    /\ threads["t1"].pc = "generate_answer"
    /\ threads["t1"].state.correction_attempts = 3
    /\ threads["t1"].state.cypher_query = fallback_query
    /\ threads["t1"].state.db_outputs # <<>>
    /\ Last(threads["t1"].state.db_outputs).kind = "list"
    /\ Last(threads["t1"].state.db_outputs).rows = <<>>
    /\ threads["t2"].pc = "correct_cypher"
    /\ threads["t2"].state.correction_attempts = 0
    /\ threads["t2"].state.db_outputs # <<>>
    /\ Last(threads["t2"].state.db_outputs).rows = <<>>

----------------------------------------------------------------------------
(* Properties of the routing and of the store access *)

\* C21: in route_correction of the text agent a list of zero rows goes to
\* correct_cypher while correction_attempts < 2 and to generate_answer once
\* correction_attempts >= 2; a list with at least one row always goes to
\* generate_answer.
C21_ZeroRowsCorrected ==
    agent = "text" =>
        \A i \in 1..Len(execLog) :
            (execLog[i].outputs # <<>> /\ execLog[i].outputs[1].kind = "list") =>
                LET rows == execLog[i].outputs[1].rows
                    attempts == execLog[i].attempts
                IN /\ (rows = <<>> /\ attempts < MaxAttempts) =>
                          execLog[i].next = "correct_cypher"
                   /\ (rows = <<>> /\ attempts >= MaxAttempts) =>
                          execLog[i].next = "generate_answer"
                   /\ rows # <<>> => execLog[i].next = "generate_answer"

C21_Witness ==
    /\ TextRunDone /\ Answered
    /\ Len(execLog) = MaxAttempts + 1
    /\ \A i \in 1..Len(execLog) :
          /\ execLog[i].driver = "empty"
          /\ execLog[i].outputs = <<ListValue(<<>>)>>
    /\ result.db_results = <<ListValue(<<>>)>>
    /\ result.correction_attempts = MaxAttempts

QueryFlow == agent = "unified" /\ fortress_state.task_type = "query"

\* C22: in the query flow of the unified agent correct_cypher runs at most
\* 2 times and execute_cypher at most 3 times, no exception leaves the
\* workflow, and the finished run has gone through find_solutions and then
\* generate_report.
C22_UnifiedBoundedRetries ==
    QueryFlow =>
        /\ Count(trace, "correct_cypher") <= MaxAttempts
        /\ Count(trace, "execute_cypher") <= MaxAttempts + 1
        /\ pc # "RAISED"
        /\ pc = "done" =>
              /\ exc = ""
              /\ Len(trace) >= 2
              /\ trace[Len(trace) - 1] = "find_solutions"
              /\ Last(trace) = "generate_report"

C22_Witness ==
    /\ QueryFlow /\ pc = "done"
    /\ execLog # <<>> /\ execLog[1].driver = "raised"
    /\ trace = <<"route_task", "generate_cypher", "execute_cypher",
                 "find_solutions", "generate_report">>

UnifiedGenerationFailed ==
    /\ QueryFlow
    /\ llmLog # <<>> /\ llmLog[1].node = "generate_cypher" /\ llmLog[1].raised

\* C23: in the query flow of the unified agent, when the generate_cypher LLM
\* call failed the query stays empty, execute_cypher sends nothing to the
\* store and returns an empty result, the run continues to find_solutions,
\* correct_cypher is never invoked and correction_attempts stays 0.
C23_UnifiedGenerationFailure ==
    UnifiedGenerationFailed =>
        /\ fortress_state.cypher_query = <<>>
        /\ \A i \in 1..Len(execLog) :
              /\ ~execLog[i].sent
              /\ execLog[i].outputs = <<>>
              /\ execLog[i].next = "find_solutions"
        /\ Count(trace, "correct_cypher") = 0
        /\ fortress_state.correction_attempts = 0

C23_Witness ==
    /\ UnifiedGenerationFailed /\ pc = "done"
    /\ Len(execLog) = 1 /\ ~execLog[1].sent
    /\ fortress_state.current_stage \in {"completed", "report_failed"}
    /\ result.success = TRUE

\* C24: execute_query never raises and returns the empty list when the
\* driver failed; in both agents the result of an execution is then a list
\* of rows, never an error message, and error_history never holds an
\* "execute" entry that carries a failed query.
C24_StoreNeverRaises ==
    /\ \A drv \in DependencyOutcomes :
          /\ ~execute_query(drv).raised
          /\ drv.raised => execute_query(drv).rows = <<>>
    /\ agent = "text" =>
          /\ \A i \in 1..Len(db_outputs) : db_outputs[i].kind = "list"
          /\ \A i \in 1..Len(execLog) :
                \A k \in 1..Len(execLog[i].outputs) :
                    execLog[i].outputs[k].kind = "list"
          /\ \A i \in 1..Len(errors_recorded) :
                errors_recorded[i].stage = "execute" =>
                    errors_recorded[i].query = NoQuery
    /\ agent = "unified" =>
          /\ \A i \in 1..Len(fortress_state.db_results) :
                ~IsStr(fortress_state.db_results[i])
          /\ \A i \in 1..Len(fortress_state.error_history) :
                fortress_state.error_history[i].stage # "execute"

C24_Witness ==
    /\ agent = "text"
    /\ execLog # <<>>
    /\ Last(execLog).driver = "raised"
    /\ Last(execLog).driver_error = "unknown label"
    /\ db_outputs = <<ListValue(<<>>)>>
    /\ errors_recorded = <<>>

----------------------------------------------------------------------------
(* Properties of the web server process *)

\* C25: the lazily created service and its connections are constructed at
\* most once in the process, whatever requests arrive and in whatever order:
\* no request opens the connection of a component that an earlier request
\* already opened, and serving a request leaves the connections as they are.
C25_ConnectionOncePerProcess ==
    \A c \in ConnectingComponents : server.opened[c] <= 1

----------------------------------------------------------------------------
(* Properties of the graph builders *)

\* C26: process_batch_with_retry calls extract_graph_elements at most
\* max_retries times, every pass before the last one raised, a pass that
\* does not raise ends the call with that pass's extraction, max_retries
\* raising passes end it with the empty graph, and no exception reaches
\* complete_build.
C26_BoundedRetry ==
    LET n == Len(retry.outcomes) IN
    /\ retry.extract_calls = n
    /\ retry.extract_calls <= retry.max_retries
    /\ ~retry.propagated
    /\ \A i \in 1..n : i < n => retry.outcomes[i] = "raised"
    /\ retry.pc = "attempt" =>
           /\ n < retry.max_retries
           /\ \A i \in 1..n : retry.outcomes[i] = "raised"
    /\ retry.pc = "returned" =>
           /\ n >= 1
           /\ IF retry.outcomes[n] = "returned"
              THEN retry.result = extract_graph_elements(retry.responses[n],
                                                         retry.batch_name)
              ELSE n = retry.max_retries /\ retry.result = EmptyGraph

\* every allowed pass raised and the call returned the empty graph
C26_Witness ==
    /\ retry.pc = "returned"
    /\ retry.max_retries > 1
    /\ Len(retry.outcomes) = retry.max_retries
    /\ Last(retry.outcomes) = "raised"

RECURSIVE Extracted(_, _)
\* the concatenation, in batch order, of the field of the extractions of the
\* first n batches that have a 'nodes' key
Extracted(n, field) ==
    IF n = 0 THEN <<>>
    ELSE LET e == extract_graph_elements(batch.responses[n], BatchNames[n])
         IN Extracted(n - 1, field)
            \o (IF "nodes" \in DOMAIN e /\ field \in DOMAIN e
                THEN e[field] ELSE <<>>)

\* C27: build_complete_graph attempts the batches in the order 1..5, each
\* once, whatever the extractions of the other batches were, and the
\* aggregated lists are the concatenation in batch order of the extractions.
C27_AllBatchesOnce ==
    LET n == Len(batch.attempted) IN
    /\ n <= Len(BatchNames)
    /\ batch.attempted = SubSeq(BatchNames, 1, n)
    /\ Len(batch.responses) = n
    /\ batch.pc \in {"create_all", "done"} => batch.attempted = BatchNames
    /\ batch.all_nodes = Extracted(n, "nodes")
    /\ batch.all_relationships = Extracted(n, "relationships")

\* a finished build whose second batch's LLM call raised, whose third batch
\* got a document json.loads rejects and whose fourth batch got a document
\* with a relationship that lacks its ids: the first, fourth and last batches
\* gave nodes
C27_Witness ==
    /\ batch.pc = "done"
    /\ batch.responses[2].raised
    /\ ~batch.responses[3].raised /\ batch.responses[3].kind = "not_json"
    /\ batch.responses[4] = [raised |-> FALSE, fence |-> "none",
                             kind |-> "bad_relationship"]
    /\ batch.all_nodes = <<GraphNode("batch1"), GraphNode("batch4"),
                           GraphNode("batch5")>>
    /\ Len(batch.all_relationships) = 3

----------------------------------------------------------------------------
(* Properties of DynamicUserCompanyManager *)

\* C29: create_user_company_from_input reports success exactly when the
\* call created a UserCompany node: a call for a name the store already
\* holds does not execute the CREATE query and reports failure, and a call
\* whose CREATE query was executed by the store reports success.
C29_SuccessIffCreated ==
    \A i \in { k \in 1..Len(company.log) : company.log[k].op = "create" } :
        LET call == company.log[i] IN
        /\ call.success <=> call.created
        /\ call.existed /\ ~call.create_executed => ~call.success

----------------------------------------------------------------------------
(* Properties of KBFortressUnifiedAgent.analyze_risk and of the workflow *)

\* C28: for each analysis question analyze_risk calls generate_cypher at most
\* once, correct_cypher at most once and the store at most twice, corrects
\* only after the first execution was made, and after any question, failed
\* or not, goes on to the next one: the node ends only with all questions
\* processed.
C28_QuestionBudget ==
    /\ question_log.generate <= 1
    /\ question_log.correct <= 1
    /\ question_log.execute <= 2
    /\ question_log.correct = 1 => question_log.execute >= 1
    /\ Len(analysis_local) <= Len(AnalysisTypes)
    /\ (agent = "unified" /\ pc = "analyze_risk" /\ step < RecursionLimit
        /\ Len(analysis_local) < Len(AnalysisTypes)) =>
           ENABLED (\E llm \in UnifiedLLMOutcomes, drv \in DriverOutcomes :
                        unified_analyze_risk_question(llm, drv))
    /\ (agent = "unified" /\ pc = "find_solutions" /\ trace # <<>>
        /\ Last(trace) = "analyze_risk") =>
           Len(analysis_local) = Len(AnalysisTypes)

\* a question whose query generation failed, with questions still to go
C28_Witness ==
    /\ agent = "unified" /\ pc = "analyze_risk"
    /\ Len(analysis_local) >= 1
    /\ Len(analysis_local) < Len(AnalysisTypes)
    /\ question_log = [generate |-> 1, correct |-> 0, execute |-> 0]

\* C30: every finished run of the unified workflow went from route_task into
\* exactly one of register_company, analyze_risk and generate_cypher and
\* entered generate_report exactly once; a register run entered
\* analyze_risk, find_solutions and generate_report, also when the node
\* creation failed.
C30_OneFlowOneReport ==
    (agent = "unified" /\ pc = "done") =>
        /\ Len(trace) >= 2
        /\ trace[1] = "route_task"
        /\ trace[2] \in {"register_company", "analyze_risk", "generate_cypher"}
        /\ Count(trace, "route_task") = 1
        /\ Count(trace, "generate_report") = 1
        /\ Last(trace) = "generate_report"
        /\ trace[2] = "register_company" =>
               /\ Count(trace, "analyze_risk") = 1
               /\ Count(trace, "find_solutions") = 1

====

